---- MODULE Spec2Model ----
(***************************************************************************)
(* Image-lifecycle core of the Postino blog backend: posts whose markdown  *)
(* content and cover field reference objects kept in a MinIO bucket.       *)
(*                                                                         *)
(* Strings are sequences of one-character strings, so that the regular     *)
(* expressions and the slicing of the source can be modelled by what they  *)
(* do.  None (Python's None for an Optional[str]) is the empty sequence:   *)
(* every test the source makes on such a value is a truthiness test or is  *)
(* made on a value that is never the empty string.                         *)
(***************************************************************************)
EXTENDS Integers, Sequences, FiniteSets, TLC

\* ------------------------------------------------------------------------
\* Characters and string helpers (Python str methods used by the source)
\* ------------------------------------------------------------------------
None == << >>

NL == "\n"

Lowers == <<"a","b","c","d","e","f","g","h","i","j","k","l","m",
            "n","o","p","q","r","s","t","u","v","w","x","y","z">>

Uppers == <<"A","B","C","D","E","F","G","H","I","J","K","L","M",
            "N","O","P","Q","R","S","T","U","V","W","X","Y","Z">>

Digits == <<"0","1","2","3","4","5","6","7","8","9">>

Range(s) == {s[i] : i \in DOMAIN s}

\* the class [a-zA-Z0-9] of the scanner's pattern
Alnum == Range(Lowers) \cup Range(Uppers) \cup Range(Digits)

\* the class \s of the removal pattern
Whitespace == {" ", NL, "\t", "\r"}

\* str.lower() on one character
LowerChar(c) ==
    IF c \in Range(Uppers)
    THEN Lowers[CHOOSE i \in DOMAIN Uppers : Uppers[i] = c]
    ELSE c

\* str.lower()
Lower(s) == [i \in DOMAIN s |-> LowerChar(s[i])]

\* s[a-1:b] of Python, with 1-based inclusive bounds; empty when a > b
Slice(s, a, b) == IF a > b THEN << >> ELSE SubSeq(s, a, b)

\* s.startswith(p, at-1)
StartsWithAt(s, p, at) ==
    /\ at + Len(p) - 1 <= Len(s)
    /\ \A k \in 1..Len(p) : s[at + k - 1] = p[k]

\* s.startswith(p)
StartsWith(s, p) == StartsWithAt(s, p, 1)

\* c in s
Contains(s, c) == \E i \in DOMAIN s : s[i] = c

\* index of the first character of s at or after position at that lies in
\* the set cs; 0 when there is none
RECURSIVE FirstOf(_, _, _)
FirstOf(s, cs, at) ==
    IF at > Len(s) THEN 0
    ELSE IF s[at] \in cs THEN at
    ELSE FirstOf(s, cs, at + 1)

\* index of the last character of s at or before position at that lies in
\* the set cs; 0 when there is none
RECURSIVE LastOf(_, _, _)
LastOf(s, cs, at) ==
    IF at < 1 THEN 0
    ELSE IF s[at] \in cs THEN at
    ELSE LastOf(s, cs, at - 1)

\* index of the last occurrence of c in s; 0 when there is none
LastIndexOf(s, c) == LastOf(s, {c}, Len(s))

\* s.rsplit(c, 1)[-1] for an s that contains c
AfterLast(s, c) == Slice(s, LastIndexOf(s, c) + 1, Len(s))

\* os.path.basename(s)
Basename(s) == AfterLast(s, "/")

\* str.strip(): leading and trailing whitespace removed
StripTo(s, keep) ==
    IF keep = {} THEN << >>
    ELSE Slice(s, FirstOf(s, keep, 1), LastOf(s, keep, Len(s)))

Strip(s) == StripTo(s, Range(s) \ Whitespace)

HTTP == <<"h","t","t","p",":","/","/">>

HTTPS == <<"h","t","t","p","s",":","/","/">>

COVER == <<"c","o","v","e","r">>

CONTENT == <<"c","o","n","t","e","n","t">>

\* filename.startswith(('http://', 'https://'))
IsAbsoluteUrl(s) == StartsWith(s, HTTP) \/ StartsWith(s, HTTPS)

\* ------------------------------------------------------------------------
\* Filename/URL codec (utils/file.py)
\* ------------------------------------------------------------------------
IMAGE_BASE_URL ==
    HTTP \o <<"l","o","c","a","l","h","o","s","t",":","9","0","0","0",
              "/","p","o","s","t","s">>

get_image_full_url(filename, image_type) ==
    IF IsAbsoluteUrl(filename) THEN filename
    ELSE IF StartsWith(filename, image_type \o <<"/">>)
         THEN IMAGE_BASE_URL \o <<"/">> \o filename
         ELSE IMAGE_BASE_URL \o <<"/">> \o image_type \o <<"/">> \o filename

\* s[i-1:] of Python for a position i found by a search; empty when the
\* search found nothing (i = 0)
From(s, i) == IF i = 0 THEN << >> ELSE Slice(s, i, Len(s))

\* s[:i-1] of Python for a position i found by a search; all of s when the
\* search found nothing (i = 0)
Before(s, i) == IF i = 0 THEN s ELSE Slice(s, 1, i - 1)

\* urlparse: the parameters (`;...`) of the last segment are not path
WithoutParams(path) ==
    Before(path, FirstOf(path, {";"}, LastIndexOf(path, "/") + 1))

\* urlparse: the query and the fragment are not path
WithoutQuery(tail) == Before(tail, FirstOf(tail, {"?", "#"}, 1))

\* urlparse: the path starts where the network location ends
AfterNetloc(rest) == From(rest, FirstOf(rest, {"/", "?", "#"}, 1))

\* urlparse(url).path for an http(s) URL: what follows the network location,
\* cut at the fragment, the query and the parameters of the last segment
UrlPath(url) ==
    WithoutParams(WithoutQuery(AfterNetloc(
        Slice(url,
              IF StartsWith(url, HTTPS) THEN Len(HTTPS) + 1 ELSE Len(HTTP) + 1,
              Len(url)))))

extract_filename_from_path(path_or_url) ==
    IF path_or_url = << >> THEN None
    ELSE IF IsAbsoluteUrl(path_or_url) THEN Basename(UrlPath(path_or_url))
    ELSE IF Contains(path_or_url, "/") THEN Basename(path_or_url)
    ELSE path_or_url

\* Python's `a or b` on Optional[str]
Or(a, b) == IF a # << >> THEN a ELSE b

\* the idiom `extract_filename_from_path(x) or x` of the endpoints
ExtractOr(x) == Or(extract_filename_from_path(x), x)

\* ------------------------------------------------------------------------
\* Content reference scanner (utils/file.py, endpoints/posts.py)
\* ------------------------------------------------------------------------
NoMatch == [ok |-> FALSE, fname |-> << >>, end |-> 0]

\* the alternatives of a backtracking match: the first that matches
OrMatch(m, alt) == IF m.ok THEN m ELSE alt

\* `[^/)]+\.[a-zA-Z0-9]+` on a whole run seg whose last '.' is at d: the
\* run is X.ext, X non-empty, ext alphanumeric and non-empty
IsFileNameAt(seg, d) ==
    /\ d >= 2
    /\ d < Len(seg)
    /\ \A k \in (d + 1)..Len(seg) : seg[k] \in Alnum

\* the final group on the run from p to just before r, the first ')' or
\* '/' at or after p: the run must end at a ')'
FinalMatchTo(s, p, r, seg) ==
    IF r # 0 /\ s[r] = ")" /\ IsFileNameAt(seg, LastIndexOf(seg, "."))
    THEN [ok |-> TRUE, fname |-> seg, end |-> r + 1]
    ELSE NoMatch

FinalMatchUpTo(s, p, r) == FinalMatchTo(s, p, r, Slice(s, p, r - 1))

\* `([^/)]+\.[a-zA-Z0-9]+)\)` at position p; the group is the whole run
FinalMatch(s, p) == FinalMatchUpTo(s, p, FirstOf(s, {"/", ")"}, p))

\* `(?:[^/]+/)*` followed by the final group, at position p: the star is
\* greedy, so the match with the most leading segments wins
RECURSIVE StarMatch(_, _)
StarMatchTo(s, p, q) ==
    OrMatch(IF p <= Len(s) /\ s[p] # "/" /\ q # 0
            THEN StarMatch(s, q + 1) ELSE NoMatch,
            FinalMatch(s, p))

StarMatch(s, p) == StarMatchTo(s, p, FirstOf(s, {"/"}, p))

\* the length of `http[s]?://` at position p, 0 when it is not there
SchemeLen(s, p) ==
    IF StartsWithAt(s, HTTPS, p) THEN Len(HTTPS)
    ELSE IF StartsWithAt(s, HTTP, p) THEN Len(HTTP) ELSE 0

TargetMatchSkipping(s, p, skip) ==
    OrMatch(IF skip = 0 THEN NoMatch ELSE StarMatch(s, p + skip),
            StarMatch(s, p))

\* `(?:http[s]?://)?(?:[^/]+/)*([^/)]+\.[a-zA-Z0-9]+)\)` at position p
TargetMatch(s, p) == TargetMatchSkipping(s, p, SchemeLen(s, p))

\* a '.' does not match a newline: the last position the `]` of a lazy
\* `.*?\]` started on this line can have, nl being the next newline
LastOnLine(s, nl) == IF nl = 0 THEN Len(s) - 1 ELSE nl

\* the positions j of a `](` that the lazy `!\[.*?\]\(` started at i can
\* stop at: no newline between the `![` and the `]`
Brackets(s, i) ==
    IF i >= 1 /\ i + 1 <= Len(s) /\ s[i] = "!" /\ s[i + 1] = "["
    THEN {j \in (i + 2)..LastOnLine(s, FirstOf(s, {NL}, i + 2)) :
             s[j] = "]" /\ s[j + 1] = "("}
    ELSE {}

Least(S) == CHOOSE x \in S : \A y \in S : x <= y

\* the lazy `.*?` stops at the first of the positions J
FirstTarget(s, J) ==
    IF J = {} THEN NoMatch ELSE TargetMatch(s, Least(J) + 2)

\* one match of the scanner's pattern started at position i
ImageMatchAt(s, i) ==
    FirstTarget(s, {j \in Brackets(s, i) : TargetMatch(s, j + 2).ok})

\* re.findall: non-overlapping matches, left to right, second group
RECURSIVE FindFrom(_, _)
FindAt(s, b, m) ==
    IF b = 0 THEN << >>
    ELSE IF m.ok THEN <<m.fname>> \o FindFrom(s, m.end)
    ELSE FindFrom(s, b + 1)

FindAtBang(s, b) == FindAt(s, b, ImageMatchAt(s, b))

FindFrom(s, i) == FindAtBang(s, FirstOf(s, {"!"}, i))

find_images_in_content(content) ==
    IF content = << >> THEN << >> ELSE FindFrom(content, 1)

\* `!\[.*?\]\(URL\)` started at position i: the position of the `]`, or 0
UrlMatchAmong(J) == IF J = {} THEN 0 ELSE Least(J)

UrlMatchAt(s, url, i) ==
    UrlMatchAmong({j \in Brackets(s, i) :
                      /\ StartsWithAt(s, url, j + 2)
                      /\ j + 2 + Len(url) <= Len(s)
                      /\ s[j + 2 + Len(url)] = ")"})

\* re.sub(r'(!\[.*?\])\(OLD\)', r'\1(NEW)', s) from position i on; b is
\* the next '!' and j the `]` of a match started there
RECURSIVE SubReplace(_, _, _, _)
SubReplaceAt(s, old_url, new_url, i, b, j) ==
    IF b = 0 THEN Slice(s, i, Len(s))
    ELSE IF j # 0
    THEN Slice(s, i, j) \o <<"(">> \o new_url \o <<")">>
         \o SubReplace(s, old_url, new_url, j + 3 + Len(old_url))
    ELSE Slice(s, i, b) \o SubReplace(s, old_url, new_url, b + 1)

SubReplaceBang(s, old_url, new_url, i, b) ==
    SubReplaceAt(s, old_url, new_url, i, b, UrlMatchAt(s, old_url, b))

SubReplace(s, old_url, new_url, i) ==
    SubReplaceBang(s, old_url, new_url, i, FirstOf(s, {"!"}, i))

_replace_image_in_content(content, old_filename, new_filename) ==
    SubReplace(content, get_image_full_url(old_filename, CONTENT),
               get_image_full_url(new_filename, CONTENT), 1)

\* the end of a search for the first non-whitespace character
OrEnd(s, i) == IF i = 0 THEN Len(s) + 1 ELSE i

\* first position at or after p that is not whitespace (Len(s)+1 at the end)
SkipWhitespace(s, p) == OrEnd(s, FirstOf(s, Range(s) \ Whitespace, p))

\* re.sub(r'!\[.*?\]\(URL\)(\s*\n*)?', '', s) from position i on; b is the
\* next '!' and j the `]` of a match started there
RECURSIVE SubRemove(_, _, _)
SubRemoveAt(s, url, i, b, j) ==
    IF b = 0 THEN Slice(s, i, Len(s))
    ELSE IF j # 0
    THEN Slice(s, i, b - 1)
         \o SubRemove(s, url, SkipWhitespace(s, j + 3 + Len(url)))
    ELSE Slice(s, i, b) \o SubRemove(s, url, b + 1)

SubRemoveBang(s, url, i, b) == SubRemoveAt(s, url, i, b, UrlMatchAt(s, url, b))

SubRemove(s, url, i) == SubRemoveBang(s, url, i, FirstOf(s, {"!"}, i))

_remove_image_from_content(content, filename) ==
    SubRemove(content, get_image_full_url(filename, CONTENT), 1)

RECURSIVE _insert_images_into_content(_, _)
_insert_images_into_content(content, filenames) ==
    IF filenames = << >> THEN content
    ELSE _insert_images_into_content(
             content \o <<NL, NL, "!", "[", "I", "m", "a", "g", "e", "]", "(">>
                     \o get_image_full_url(Head(filenames), CONTENT)
                     \o <<")", NL>>,
             Tail(filenames))

\* set(find_images_in_content(content))
ImageSet(content) == Range(find_images_in_content(content))

\* ------------------------------------------------------------------------
\* Bounds and inputs
\* ------------------------------------------------------------------------
\* number of post rows ever created
MaxPosts == 1

\* number of filenames ever generated
MaxUuid == 2

PostIds == 1..MaxPosts

ImageTypes == {COVER, CONTENT}

\* an UploadFile: its filename and its declared content type (None if the
\* part declares none); the bytes are not modelled
MkFile(filename, content_type) ==
    [filename |-> filename, content_type |-> content_type]

\* no file part at all, and a part without a filename, are the same to the
\* source (`image and image.filename`)
NoFile == MkFile(<< >>, << >>)

PngFile == MkFile(<<"p", ".", "P", "N", "G">>,
                  <<"i","m","a","g","e","/","p","n","g">>)

BareExtFile == MkFile(<<"a", ".", "p", "n", "g">>, None)

TxtFile == MkFile(<<"n", ".", "t", "x", "t">>,
                  <<"t","e","x","t","/","p","l","a","i","n">>)

Files == {PngFile, BareExtFile, TxtFile, MkFile(<<"r", "a", "w">>, None)}

Batches == {<<PngFile>>, <<TxtFile, BareExtFile>>, <<BareExtFile, PngFile>>}

CoverInputs == {PngFile, TxtFile}

\* which storage calls of one request fail: the ordinals, within the
\* request, of the failing put_object and remove_object calls
MkFault(put, del) == [put |-> put, del |-> del]

NoFault == MkFault({}, {})

\* the faults that can strike a request making at most np put_object and
\* nd remove_object calls: none, or one failing call
FaultsUpTo(np, nd) ==
    {NoFault} \cup {MkFault({i}, {}) : i \in 1..np}
              \cup {MkFault({}, {i}) : i \in 1..nd}

\* ------------------------------------------------------------------------
\* Object store and save/delete helpers (utils/file.py)
\* ------------------------------------------------------------------------
\* the object store as one request sees it: the keys of the bucket, the
\* storage calls the request has made, the filename generator, the faults
MkWorld(st, lg, u, fault) ==
    [storage |-> st, log |-> lg, uuid |-> u, fault |-> fault]

LogEntry(op, key, ok, file) ==
    [op |-> op, key |-> key, ok |-> ok, file |-> file]

Calls(lg, op) == {i \in DOMAIN lg : lg[i].op = op}

\* uuid.uuid4().hex: a token never generated before
Uuid(n) == <<"f", Digits[n + 1]>>

object_name_of(image_type, filename) == image_type \o <<"/">> \o filename

\* the put_object call of save_image and what save_image returns: the
\* filename, or None when the call raised
put_object(w, image, object_name, filename, ok) ==
    [w |-> MkWorld(IF ok THEN w.storage \cup {object_name} ELSE w.storage,
                   Append(w.log, LogEntry("put", object_name, ok, image)),
                   w.uuid + 1, w.fault),
     result |-> IF ok THEN filename ELSE None]

\* `f"{uuid.uuid4().hex}.{ext}"` stored under `f"{image_type}/{filename}"`
save_image_as(w, image, image_type, filename) ==
    put_object(w, image, object_name_of(image_type, filename), filename,
               (Cardinality(Calls(w.log, "put")) + 1) \notin w.fault.put)

save_image(w, image, image_type) ==
    IF image.filename = << >> THEN [w |-> w, result |-> None]
    ELSE save_image_as(w, image, image_type,
                       Uuid(w.uuid) \o <<".">> \o
                       (IF Contains(image.filename, ".")
                        THEN Lower(AfterLast(image.filename, "."))
                        ELSE <<"j", "p", "g">>))

IMAGE_PREFIX == <<"i","m","a","g","e","/">>

valid_extensions ==
    {<<"j","p","g">>, <<"j","p","e","g">>, <<"p","n","g">>, <<"g","i","f">>,
     <<"w","e","b","p">>, <<"b","m","p">>, <<"s","v","g">>, <<"t","i","f","f">>}

is_image_file(upload_file) ==
    IF upload_file.filename = << >> THEN FALSE
    ELSE IF /\ upload_file.content_type # << >>
            /\ StartsWith(upload_file.content_type, IMAGE_PREFIX)
         THEN TRUE
    ELSE IF Contains(upload_file.filename, ".")
         THEN Lower(AfterLast(upload_file.filename, ".")) \in valid_extensions
    ELSE FALSE

\* `if filename: filenames.append(filename)` and the rest of the loop
save_rest(one, rest) ==
    [w |-> rest.w,
     results |-> IF one.result # None THEN <<one.result>> \o rest.results
                 ELSE rest.results]

RECURSIVE save_multiple_images(_, _, _)
save_next(one, images, image_type) ==
    save_rest(one, save_multiple_images(one.w, Tail(images), image_type))

save_multiple_images(w, images, image_type) ==
    IF images = << >> THEN [w |-> w, results |-> << >>]
    ELSE save_next(IF /\ Head(images).filename # << >>
                      /\ is_image_file(Head(images))
                   THEN save_image(w, Head(images), image_type)
                   ELSE [w |-> w, result |-> None],
                   images, image_type)

\* the remove_object call of delete_image_from_minio and what
\* delete_image_from_minio returns: False when the call raised
remove_object(w, object_name, ok) ==
    [w |-> MkWorld(IF ok THEN w.storage \ {object_name} ELSE w.storage,
                   Append(w.log, LogEntry("delete", object_name, ok, NoFile)),
                   w.uuid, w.fault),
     result |-> ok]

delete_image_from_minio(w, image_identifier, image_type) ==
    IF image_identifier = << >> THEN [w |-> w, result |-> FALSE]
    ELSE remove_object(w,
                       IF Contains(image_identifier, "/")
                       THEN image_identifier
                       ELSE object_name_of(image_type,
                                           ExtractOr(image_identifier)),
                       (Cardinality(Calls(w.log, "delete")) + 1)
                           \notin w.fault.del)

\* a loop `for x in xs: delete_image_from_minio(x, image_type)`
RECURSIVE DeleteEach(_, _, _)
DeleteEach(w, xs, image_type) ==
    IF xs = << >> THEN w
    ELSE DeleteEach(delete_image_from_minio(w, Head(xs), image_type).w,
                    Tail(xs), image_type)

\* ------------------------------------------------------------------------
\* Position-based insertion (endpoints/posts.py)
\* ------------------------------------------------------------------------
\* the content_image_positions / positions parameter after json.loads:
\*   absent       the parameter is missing or empty
\*   invalid_json json.loads raises JSONDecodeError
\*   scalar       a JSON number or null: `"positions" in x` raises TypeError
\*   array        a JSON array at top level
\*   no_list      a JSON object without a "positions" list
\*   bad_entries  {"positions": [...]} whose entries are not objects
\*   valid        {"positions": [{"index": i, "image_index": k}, ...]}
MkPositions(kind, entries) == [kind |-> kind, entries |-> entries]

Pos(index, image_index) == [index |-> index, image_index |-> image_index]

Absent == MkPositions("absent", << >>)

\* uploaded content images together with the positions sent with them
MkImages(images, positions) == [images |-> images, positions |-> positions]

NoImages == MkImages(<< >>, Absent)

ImageInputs ==
    {MkImages(<<PngFile>>, Absent),
     MkImages(<<TxtFile, BareExtFile>>, Absent),
     MkImages(<<BareExtFile, PngFile>>,
              MkPositions("valid", <<Pos(0, 1), Pos(2, 0)>>)),
     MkImages(<<PngFile>>, MkPositions("valid", <<Pos(1, 2), Pos(1, 0)>>)),
     MkImages(<<PngFile>>, MkPositions("invalid_json", << >>)),
     MkImages(<<PngFile>>, MkPositions("scalar", << >>)),
     MkImages(<<PngFile>>, MkPositions("array", << >>)),
     MkImages(<<PngFile>>, MkPositions("no_list", << >>)),
     MkImages(<<PngFile>>, MkPositions("bad_entries", << >>))}

\* the positions processed in the order they were given in
sorted_positions_as_given(entries) == entries

\* sorted(entries, key=lambda x: x.get("index", 0), reverse=True): stable
RECURSIVE InsertSorted(_, _)
InsertSorted(sorted, e) ==
    IF sorted = << >> THEN <<e>>
    ELSE IF Head(sorted).index >= e.index
         THEN <<Head(sorted)>> \o InsertSorted(Tail(sorted), e)
         ELSE <<e>> \o sorted

RECURSIVE sorted_positions(_)
sorted_positions(entries) ==
    IF entries = << >> THEN << >>
    ELSE InsertSorted(sorted_positions(SubSeq(entries, 1, Len(entries) - 1)),
                      entries[Len(entries)])

\* the number of characters of s[:index]
CutPoint(s, index) ==
    IF index >= 0
    THEN IF index > Len(s) THEN Len(s) ELSE index
    ELSE IF Len(s) + index < 0 THEN 0 ELSE Len(s) + index

img_markdown(img_filename) ==
    <<NL, NL, "!", "[", "I", "m", "a", "g", "e", "]", "(">>
    \o get_image_full_url(img_filename, CONTENT) \o <<")", NL, NL>>

\* `final_content[:index] + img_markdown + final_content[index:]` when
\* `0 <= image_index < len(filenames)`, cut being the length of the slice
InsertOne(final_content, filenames, pos, cut) ==
    IF 0 <= pos.image_index /\ pos.image_index < Len(filenames)
    THEN Slice(final_content, 1, cut)
         \o img_markdown(filenames[pos.image_index + 1])
         \o Slice(final_content, cut + 1, Len(final_content))
    ELSE final_content

\* the loop `for pos in sorted_positions: ...` over final_content
RECURSIVE InsertAtPositions(_, _, _)
InsertAtPositions(final_content, filenames, sorted) ==
    IF sorted = << >> THEN final_content
    ELSE InsertAtPositions(
             InsertOne(final_content, filenames, Head(sorted),
                       CutPoint(final_content, Head(sorted).index)),
             filenames, Tail(sorted))

\* the block "Process content with image positions" of create_post and
\* update_post, for a non-empty list of saved filenames: the final content,
\* or a crash when an exception escapes the except clause
process_positions(content, filenames, positions) ==
    CASE positions.kind = "absent" ->
             [crash |-> FALSE,
              content |-> _insert_images_into_content(content, filenames)]
      [] positions.kind \in {"invalid_json", "scalar"} ->
             [crash |-> FALSE,
              content |-> _insert_images_into_content(content, filenames)]
      [] positions.kind \in {"array", "no_list"} ->
             [crash |-> FALSE, content |-> content]
      [] positions.kind = "bad_entries" ->
             [crash |-> TRUE, content |-> content]
      [] positions.kind = "valid" ->
             [crash |-> FALSE,
              content |-> InsertAtPositions(content, filenames,
                                            sorted_positions(positions.entries))]

\* ------------------------------------------------------------------------
\* Posts (models/post_model.py, crud/post_crud.py)
\* ------------------------------------------------------------------------
\* a row of the posts table; title, tags and timestamps are not modelled
MkPost(content, image_url, is_active, is_archived) ==
    [exists |-> TRUE, content |-> content, image_url |-> image_url,
     is_active |-> is_active, is_archived |-> is_archived]

\* an id with no row
NoPost ==
    [exists |-> FALSE, content |-> << >>, image_url |-> None,
     is_active |-> FALSE, is_archived |-> FALSE]

\* a set as a sequence, in some order
RECURSIVE SetToSeq(_)
SetToSeq(S) ==
    IF S = {} THEN << >>
    ELSE LET x == CHOOSE x \in S : TRUE IN <<x>> \o SetToSeq(S \ {x})

\* PostBase.content_not_empty: the validator PostCreate and PostUpdate run
\* on the content they are built with
content_not_empty(v) == IF v = << >> THEN v ELSE Strip(v)

\* crud.create_post: the row made from a PostCreate
crud_create_post(content, image_url, is_active, is_archived) ==
    MkPost(content, image_url, is_active, is_archived)

\* the cleanup taking every image of the old content for unused
crud_cleanup_all_old(w, updated, old_content_images, manage_content_images) ==
    [w |-> DeleteEach(w, SetToSeq(old_content_images), CONTENT),
     post |-> updated]

\* crud.update_post, "Clean up unused images if requested", and its result
crud_cleanup(w, updated, old_content_images, manage_content_images) ==
    [w |-> IF manage_content_images
           THEN DeleteEach(w, SetToSeq(old_content_images
                                       \ ImageSet(updated.content)), CONTENT)
           ELSE w,
     post |-> updated]

\* crud.update_post cleaning up whether or not the caller asked for it
crud_update_post_managing(w, post, content, is_active, is_archived, image_url, manage_content_images) ==
    crud_cleanup(IF /\ image_url # None
                    /\ post.image_url # None
                    /\ post.image_url # image_url
                 THEN delete_image_from_minio(w, post.image_url, COVER).w
                 ELSE w,
                 MkPost(content, Or(image_url, post.image_url), is_active,
                        is_archived),
                 ImageSet(post.content), TRUE)

\* crud.update_post leaving the status of the row as it is
crud_update_post_keeping_status(w, post, content, is_active, is_archived, image_url, manage_content_images) ==
    crud_cleanup(IF /\ image_url # None
                    /\ post.image_url # None
                    /\ post.image_url # image_url
                 THEN delete_image_from_minio(w, post.image_url, COVER).w
                 ELSE w,
                 MkPost(content, Or(image_url, post.image_url), post.is_active,
                        post.is_archived),
                 IF manage_content_images THEN ImageSet(post.content) ELSE {},
                 manage_content_images)

\* crud.update_post on row `post` with the fields of a PostUpdate
crud_update_post(w, post, content, is_active, is_archived, image_url, manage_content_images) ==
    crud_cleanup(IF /\ image_url # None
                    /\ post.image_url # None
                    /\ post.image_url # image_url
                 THEN delete_image_from_minio(w, post.image_url, COVER).w
                 ELSE w,
                 MkPost(content, Or(image_url, post.image_url), is_active,
                        is_archived),
                 IF manage_content_images THEN ImageSet(post.content) ELSE {},
                 manage_content_images)

\* ------------------------------------------------------------------------
\* Image endpoints (endpoints/images.py)
\* ------------------------------------------------------------------------
\* what a handler hands back: the rows, the object store, the HTTP status
\* and the filenames of the response body
Outcome(ps, w, status, filenames) ==
    [posts |-> ps, w |-> w, status |-> status, filenames |-> filenames]

\* `image.content_type.startswith("image/")`, false without a content type
DeclaresImage(image) ==
    image.content_type # << >> /\ StartsWith(image.content_type, IMAGE_PREFIX)

\* upload_single_image once save_image has returned
upload_single_image_saved(ps, saved) ==
    IF saved.result = None THEN Outcome(ps, saved.w, 500, << >>)
    ELSE Outcome(ps, saved.w, 200, <<saved.result>>)

upload_single_image(ps, w, image, image_type) ==
    IF ~DeclaresImage(image) THEN Outcome(ps, w, 400, << >>)
    ELSE upload_single_image_saved(ps, save_image(w, image, image_type))

\* upload_multiple_images once save_multiple_images has returned
upload_multiple_images_saved(ps, saved) ==
    IF saved.results = << >> THEN Outcome(ps, saved.w, 500, << >>)
    ELSE Outcome(ps, saved.w, 200, saved.results)

upload_multiple_images(ps, w, images, image_type) ==
    IF \E i \in DOMAIN images : ~DeclaresImage(images[i])
    THEN Outcome(ps, w, 400, << >>)
    ELSE upload_multiple_images_saved(
             ps, save_multiple_images(w, images, image_type))

\* delete_image once delete_image_from_minio has returned
delete_image_deleted(ps, del) ==
    IF ~del.result THEN Outcome(ps, del.w, 404, << >>)
    ELSE Outcome(ps, del.w, 200, << >>)

delete_image(ps, w, filename, image_type) ==
    delete_image_deleted(
        ps, delete_image_from_minio(w, ExtractOr(filename), image_type))

\* ------------------------------------------------------------------------
\* Post endpoints (endpoints/posts.py)
\* ------------------------------------------------------------------------
\* `[img for img in content_images if img and img.filename]`
RECURSIVE WithFilename(_)
WithFilename(images) ==
    IF images = << >> THEN << >>
    ELSE IF Head(images).filename # << >>
         THEN <<Head(images)>> \o WithFilename(Tail(images))
         ELSE WithFilename(Tail(images))

\* the id the next row gets, 0 when the bound on rows is reached
NextId(ps) ==
    LET free == {i \in PostIds : \A j \in i..MaxPosts : ~ps[j].exists}
    IN  IF free = {} THEN 0 ELSE Least(free)

\* the form of create_post and update_post: the fields of the request that
\* the model keeps
MkForm(content, is_active, is_archived, cover_image, content_images, content_image_positions, keep_cover_image, delete_unused_images) ==
    [content |-> content, is_active |-> is_active, is_archived |-> is_archived,
     cover_image |-> cover_image, content_images |-> content_images,
     content_image_positions |-> content_image_positions,
     keep_cover_image |-> keep_cover_image,
     delete_unused_images |-> delete_unused_images]

\* "Process cover image": `if cover_image and cover_image.filename`, the
\* cover filename being `otherwise` when no file is sent
save_cover(w, cover_image, otherwise) ==
    IF cover_image.filename # << >> THEN save_image(w, cover_image, COVER)
    ELSE [w |-> w, result |-> otherwise]

\* "Process content images": `if content_images: ...`
save_content_images(w, content_images) ==
    IF content_images # << >>
    THEN save_multiple_images(w, WithFilename(content_images), CONTENT)
    ELSE [w |-> w, results |-> << >>]

\* "Process content with image positions": `if content_image_filenames`
final_content(content, filenames, content_image_positions) ==
    IF filenames # << >>
    THEN process_positions(content, filenames, content_image_positions)
    ELSE [crash |-> FALSE, content |-> content]

\* create_post from PostCreate on: the row and the response
create_post_row(ps, id, form, cover, saved, final) ==
    IF final.crash THEN Outcome(ps, saved.w, 500, << >>)
    ELSE Outcome([ps EXCEPT ![id] =
                     crud_create_post(content_not_empty(final.content),
                                      cover.result, form.is_active,
                                      form.is_archived)],
                 saved.w, 200, saved.results)

\* create_post from the position block on
create_post_content(ps, id, form, cover, saved) ==
    create_post_row(ps, id, form, cover, saved,
                    final_content(form.content, saved.results,
                                  form.content_image_positions))

\* create_post from the content images on
create_post_images(ps, id, form, cover) ==
    create_post_content(ps, id, form, cover,
                        save_content_images(cover.w, form.content_images))

create_post(ps, w, id, form) ==
    create_post_images(ps, id, form, save_cover(w, form.cover_image, None))

\* update_post, the response after crud.update_post
update_post_response(ps, post_id, saved, upd) ==
    Outcome([ps EXCEPT ![post_id] = upd.post], upd.w, 200, saved.results)

\* update_post from PostUpdate on
update_post_row(ps, post_id, form, cover, saved, final) ==
    IF final.crash THEN Outcome(ps, saved.w, 500, << >>)
    ELSE update_post_response(
             ps, post_id, saved,
             crud_update_post(saved.w, ps[post_id],
                              content_not_empty(final.content),
                              form.is_active, form.is_archived, cover.result,
                              form.delete_unused_images))

\* update_post from the position block on
update_post_content(ps, post_id, form, cover, saved) ==
    update_post_row(ps, post_id, form, cover, saved,
                    final_content(form.content, saved.results,
                                  form.content_image_positions))

\* update_post from the content images on
update_post_images(ps, post_id, form, cover) ==
    update_post_content(ps, post_id, form, cover,
                        save_content_images(cover.w, form.content_images))

\* update_post, "Handle cover image": with a file, the old cover is deleted
\* and then the new one saved; without, the cover is kept or dropped
update_post_cover(ps, w, post_id, form) ==
    update_post_images(
        ps, post_id, form,
        save_cover(IF /\ form.cover_image.filename # << >>
                      /\ ps[post_id].image_url # None
                   THEN delete_image_from_minio(w, ps[post_id].image_url,
                                                COVER).w
                   ELSE w,
                   form.cover_image,
                   IF form.keep_cover_image THEN ps[post_id].image_url
                   ELSE None))

update_post(ps, w, post_id, form) ==
    IF ~ps[post_id].exists THEN Outcome(ps, w, 404, << >>)
    ELSE update_post_cover(ps, w, post_id, form)

\* the old cover left alone: no delete is asked of the bucket
delete_old_cover_skipped(w, post) == w

\* `if post.image_url: delete_image_from_minio(post.image_url, "cover")`,
\* the result of the call dropped
delete_old_cover(w, post) ==
    IF post.image_url # None
    THEN delete_image_from_minio(w, post.image_url, COVER).w
    ELSE w

\* the delete of the old cover made a hard delete: its failure ends the
\* request with an error and nothing committed
update_post_cover_image_saved_strict(ps, post_id, saved) ==
    IF \E i \in DOMAIN delete_old_cover(saved.w, ps[post_id]).log :
           /\ delete_old_cover(saved.w, ps[post_id]).log[i].op = "delete"
           /\ ~delete_old_cover(saved.w, ps[post_id]).log[i].ok
    THEN Outcome(ps, delete_old_cover(saved.w, ps[post_id]), 500, << >>)
    ELSE Outcome([ps EXCEPT ![post_id].image_url = saved.result],
                 delete_old_cover(saved.w, ps[post_id]), 200,
                 IF saved.result = None THEN << >> ELSE <<saved.result>>)

\* update_post_cover_image once save_image has returned
update_post_cover_image_saved(ps, post_id, saved) ==
    Outcome([ps EXCEPT ![post_id].image_url = saved.result],
            delete_old_cover(saved.w, ps[post_id]), 200,
            IF saved.result = None THEN << >> ELSE <<saved.result>>)

update_post_cover_image(ps, w, post_id, cover_image) ==
    IF ~ps[post_id].exists THEN Outcome(ps, w, 404, << >>)
    ELSE IF cover_image.filename = << >> THEN Outcome(ps, w, 400, << >>)
    ELSE update_post_cover_image_saved(ps, post_id,
                                       save_image(w, cover_image, COVER))

\* the delete of the cover made a hard delete: its failure ends the request
\* with an error and the cover field kept
delete_post_cover_image_strict(ps, w, post_id) ==
    IF ~ps[post_id].exists THEN Outcome(ps, w, 404, << >>)
    ELSE IF \E i \in DOMAIN delete_old_cover(w, ps[post_id]).log :
                ~delete_old_cover(w, ps[post_id]).log[i].ok
    THEN Outcome(ps, delete_old_cover(w, ps[post_id]), 500, << >>)
    ELSE Outcome([ps EXCEPT ![post_id].image_url = None],
                 delete_old_cover(w, ps[post_id]), 200, << >>)

delete_post_cover_image(ps, w, post_id) ==
    IF ~ps[post_id].exists THEN Outcome(ps, w, 404, << >>)
    ELSE Outcome([ps EXCEPT ![post_id].image_url = None],
                 delete_old_cover(w, ps[post_id]), 200, << >>)

\* add_images_to_post, content images with auto_insert, once the content
\* is computed
add_images_inserted(ps, post_id, saved, final) ==
    IF final.crash THEN Outcome(ps, saved.w, 500, << >>)
    ELSE Outcome([ps EXCEPT ![post_id].content = final.content], saved.w, 200,
                 saved.results)

\* add_images_to_post once save_multiple_images has returned
add_images_saved(ps, post_id, image_type, auto_insert, positions, saved) ==
    IF saved.results = << >> THEN Outcome(ps, saved.w, 400, << >>)
    ELSE IF image_type = COVER
    THEN Outcome([ps EXCEPT ![post_id].image_url = saved.results[1]],
                 delete_old_cover(saved.w, ps[post_id]), 200, saved.results)
    ELSE IF image_type = CONTENT /\ auto_insert
    THEN add_images_inserted(ps, post_id, saved,
                             process_positions(ps[post_id].content,
                                               saved.results, positions))
    ELSE Outcome(ps, saved.w, 200, saved.results)

add_images_to_post(ps, w, post_id, images, image_type, auto_insert, positions) ==
    IF ~ps[post_id].exists THEN Outcome(ps, w, 404, << >>)
    ELSE add_images_saved(ps, post_id, image_type, auto_insert, positions,
                          save_multiple_images(w, WithFilename(images),
                                               image_type))

\* the checks delete_post_image and replace_post_image share: is the
\* filename the post's cover, and if a content image is meant, is it used
is_cover_of(post, filename, image_type) ==
    image_type = COVER /\ post.image_url = filename

\* the membership check left out
NotInContent_unchecked(post, filename, image_type) == FALSE

NotInContent(post, filename, image_type) ==
    /\ image_type = CONTENT
    /\ ~is_cover_of(post, filename, image_type)
    /\ ~Contains(find_images_in_content(post.content), filename)

\* the result of delete_image_from_minio dropped, as the best-effort
\* deletes drop it
delete_post_image_deleted_lenient(ps, post_id, filename, image_type, update_content, del) ==
    IF is_cover_of(ps[post_id], filename, image_type)
    THEN Outcome([ps EXCEPT ![post_id].image_url = None], del.w, 200,
                 <<filename>>)
    ELSE IF update_content /\ image_type = CONTENT
    THEN Outcome([ps EXCEPT ![post_id].content =
                     _remove_image_from_content(ps[post_id].content, filename)],
                 del.w, 200, <<filename>>)
    ELSE Outcome(ps, del.w, 200, <<filename>>)

\* delete_post_image once delete_image_from_minio has returned
delete_post_image_deleted(ps, post_id, filename, image_type, update_content, del) ==
    IF ~del.result THEN Outcome(ps, del.w, 500, << >>)
    ELSE IF is_cover_of(ps[post_id], filename, image_type)
    THEN Outcome([ps EXCEPT ![post_id].image_url = None], del.w, 200,
                 <<filename>>)
    ELSE IF update_content /\ image_type = CONTENT
    THEN Outcome([ps EXCEPT ![post_id].content =
                     _remove_image_from_content(ps[post_id].content, filename)],
                 del.w, 200, <<filename>>)
    ELSE Outcome(ps, del.w, 200, <<filename>>)

\* delete_post_image from the membership check on, the filename extracted
delete_post_image_checked(ps, w, post_id, filename, image_type, update_content) ==
    IF NotInContent(ps[post_id], filename, image_type)
    THEN Outcome(ps, w, 404, << >>)
    ELSE delete_post_image_deleted(ps, post_id, filename, image_type,
                                   update_content,
                                   delete_image_from_minio(w, filename,
                                                           image_type))

delete_post_image(ps, w, post_id, filename, image_type, update_content) ==
    IF ~ps[post_id].exists THEN Outcome(ps, w, 404, << >>)
    ELSE delete_post_image_checked(ps, w, post_id, ExtractOr(filename),
                                   image_type, update_content)

\* replace_post_image once save_image has returned; status 0 means the
\* request goes on
replace_post_image_saved(ps, saved) ==
    IF saved.result = None THEN Outcome(ps, saved.w, 500, << >>)
    ELSE Outcome(ps, saved.w, 0, <<saved.result>>)

\* replace_post_image from the membership check on, the filename extracted
replace_post_image_checked(ps, w, post_id, old_filename, new_image, image_type) ==
    IF NotInContent(ps[post_id], old_filename, image_type)
    THEN Outcome(ps, w, 404, << >>)
    ELSE replace_post_image_saved(ps, save_image(w, new_image, image_type))

\* replace_post_image up to and including the upload of the new image
replace_post_image_upload(ps, w, post_id, old_filename, new_image, image_type) ==
    IF ~ps[post_id].exists THEN Outcome(ps, w, 404, << >>)
    ELSE replace_post_image_checked(ps, w, post_id, ExtractOr(old_filename),
                                    new_image, image_type)

\* replace_post_image, "Delete the old image from storage"
replace_post_image_delete(w, old_filename, image_type) ==
    delete_image_from_minio(w, old_filename, image_type).w

\* replace_post_image, "Update post if needed" and the commit
replace_post_image_commit(ps, post_id, old_filename, new_filename, is_cover, image_type, update_content) ==
    IF is_cover
    THEN [ps EXCEPT ![post_id].image_url = new_filename]
    ELSE IF update_content /\ image_type = CONTENT
    THEN [ps EXCEPT ![post_id].content =
             _replace_image_in_content(ps[post_id].content, old_filename,
                                       new_filename)]
    ELSE ps

\* ------------------------------------------------------------------------
\* Post status endpoints (endpoints/posts.py, crud/post_crud.py)
\* ------------------------------------------------------------------------
archive_post(ps, w, post_id) ==
    IF ~ps[post_id].exists THEN Outcome(ps, w, 404, << >>)
    ELSE Outcome([ps EXCEPT ![post_id].is_archived = TRUE], w, 200, << >>)

unarchive_post(ps, w, post_id) ==
    IF ~ps[post_id].exists THEN Outcome(ps, w, 404, << >>)
    ELSE Outcome([ps EXCEPT ![post_id].is_archived = FALSE], w, 200, << >>)

activate_post(ps, w, post_id) ==
    IF ~ps[post_id].exists THEN Outcome(ps, w, 404, << >>)
    ELSE Outcome([ps EXCEPT ![post_id].is_active = TRUE], w, 200, << >>)

deactivate_post(ps, w, post_id) ==
    IF ~ps[post_id].exists THEN Outcome(ps, w, 404, << >>)
    ELSE Outcome([ps EXCEPT ![post_id].is_active = FALSE], w, 200, << >>)

\* delete_post giving up, the row kept, when a delete of an image fails
delete_post_strict(ps, w, post_id, delete_images) ==
    IF ~ps[post_id].exists THEN Outcome(ps, w, 404, << >>)
    ELSE IF /\ delete_images
            /\ \E i \in DOMAIN DeleteEach(delete_old_cover(w, ps[post_id]),
                                         find_images_in_content(ps[post_id].content),
                                         CONTENT).log :
                   ~DeleteEach(delete_old_cover(w, ps[post_id]),
                               find_images_in_content(ps[post_id].content),
                               CONTENT).log[i].ok
    THEN Outcome(ps, DeleteEach(delete_old_cover(w, ps[post_id]),
                                find_images_in_content(ps[post_id].content),
                                CONTENT), 500, << >>)
    ELSE Outcome([ps EXCEPT ![post_id] = NoPost],
                 IF delete_images
                 THEN DeleteEach(delete_old_cover(w, ps[post_id]),
                                 find_images_in_content(ps[post_id].content),
                                 CONTENT)
                 ELSE w,
                 204, << >>)

\* delete_post: the deletes of the cover and of each image found in the
\* content, their results dropped, then `db.delete(post)`; the id of a
\* deleted row is free again
delete_post(ps, w, post_id, delete_images) ==
    IF ~ps[post_id].exists THEN Outcome(ps, w, 404, << >>)
    ELSE Outcome([ps EXCEPT ![post_id] = NoPost],
                 IF delete_images
                 THEN DeleteEach(delete_old_cover(w, ps[post_id]),
                                 find_images_in_content(ps[post_id].content),
                                 CONTENT)
                 ELSE w,
                 204, << >>)

\* ------------------------------------------------------------------------
\* Image listing and serving (endpoints/images.py)
\* ------------------------------------------------------------------------
\* list_images, `post_cover_images`: the rows the status filters of the
\* query let through and whose cover has a filename (cover filenames are
\* generated, so no two rows share one)
post_cover_images(ps, image_type, show_archived_post_images, show_inactive_post_images) ==
    IF image_type \in {COVER, None}
    THEN {i \in PostIds :
             /\ ps[i].exists
             /\ show_archived_post_images \/ ~ps[i].is_archived
             /\ show_inactive_post_images \/ ps[i].is_active
             /\ ps[i].image_url # None
             /\ extract_filename_from_path(ps[i].image_url) # None}
    ELSE {}

\* list_images, the two `continue` of the loop: the object at `path` is
\* skipped
list_images_skips(ps, path, rows, show_archived_post_images, show_inactive_post_images) ==
    /\ StartsWith(path, COVER \o <<"/">>)
    /\ ~(show_archived_post_images /\ show_inactive_post_images)
    /\ \E i \in rows :
           /\ extract_filename_from_path(ps[i].image_url) = Basename(path)
           /\ \/ ~show_archived_post_images /\ ps[i].is_archived
              \/ ~show_inactive_post_images /\ ~ps[i].is_active

\* list_images: the paths of the objects listed (image_type None: no filter)
list_images(ps, st, image_type, show_archived_post_images, show_inactive_post_images) ==
    {path \in st :
        /\ image_type = None \/ StartsWith(path, image_type \o <<"/">>)
        /\ ~list_images_skips(ps, path,
                              post_cover_images(ps, image_type,
                                                show_archived_post_images,
                                                show_inactive_post_images),
                              show_archived_post_images,
                              show_inactive_post_images)}

\* serve_post_image: the status of the response; the HTTPException(404)
\* raised for an object that get_object does not find is caught by the
\* outer `except Exception` and becomes a 500
serve_post_image(ps, st, post_id, image_type, filename) ==
    IF ~ps[post_id].exists THEN 404
    ELSE IF ps[post_id].is_archived THEN 403
    ELSE IF ~ps[post_id].is_active THEN 403
    ELSE IF /\ image_type = COVER
            /\ ps[post_id].image_url # None
            /\ extract_filename_from_path(ps[post_id].image_url) # filename
    THEN 404
    ELSE IF object_name_of(image_type, filename) \in st THEN 200
    ELSE 500

\* ------------------------------------------------------------------------
\* Orphan audit (endpoints/images.py)
\* ------------------------------------------------------------------------
\* the used covers counted over the published posts alone
used_cover_images_published(ps) ==
    {extract_filename_from_path(ps[i].image_url) :
        i \in {i \in PostIds : /\ ps[i].exists /\ ps[i].image_url # None
                               /\ ps[i].is_active /\ ~ps[i].is_archived}}
    \ {<< >>}

\* `used_cover_images`: over db.query(Post).all(), the extracted filename of
\* each truthy image_url, when truthy itself
used_cover_images(ps) ==
    {extract_filename_from_path(ps[i].image_url) :
        i \in {i \in PostIds : ps[i].exists /\ ps[i].image_url # None}}
    \ {<< >>}

\* `used_content_images`: over db.query(Post).all(), the extracted filename
\* of each image found in the content, when truthy
used_content_images(ps) ==
    {extract_filename_from_path(f) :
        f \in UNION {ImageSet(ps[i].content) :
                       i \in {i \in PostIds : ps[i].exists}}}
    \ {<< >>}

\* the audit blind to the content namespace
find_orphaned_images_covers_only(ps, st) ==
    [orphaned_cover_images |->
         {Basename(k) : k \in {k \in st : StartsWith(k, COVER \o <<"/">>)}}
         \ used_cover_images(ps),
     orphaned_content_images |-> {}]

\* find_orphaned_images: per namespace, the basenames of the listed objects
\* that are not in the used set (the order of the lists is not modelled)
find_orphaned_images(ps, st) ==
    [orphaned_cover_images |->
         {Basename(k) : k \in {k \in st : StartsWith(k, COVER \o <<"/">>)}}
         \ used_cover_images(ps),
     orphaned_content_images |->
         {Basename(k) : k \in {k \in st : StartsWith(k, CONTENT \o <<"/">>)}}
         \ used_content_images(ps)]

\* ------------------------------------------------------------------------
\* State
\* ------------------------------------------------------------------------
VARIABLES
    posts,      \* the posts table: PostIds -> row
    storage,    \* the keys of the objects in the bucket
    uuid,       \* the ordinal of the next generated filename
    log,        \* the storage calls of the current (or last) request
    resp,       \* the current (or last) request and its response
    rp,         \* the replace_post_image request in flight
    calls,      \* the concurrent update_post_cover_image requests in flight
    calc        \* a helper function applied on its own: input and result

vars == <<posts, storage, uuid, log, resp, rp, calls, calc>>

Idle == [pc |-> "idle"]

\* no request in flight and no response on its way
NoRequest == [op |-> "none", status |-> 0, filenames |-> << >>]

\* the workers that run update_post_cover_image side by side
Procs == {1, 2}

\* no helper function applied on its own
NoCalc == [fn |-> "none"]

Init ==
    /\ posts = [i \in PostIds |-> NoPost]
    /\ storage = {}
    /\ uuid = 1
    /\ log = << >>
    /\ resp = NoRequest
    /\ rp = Idle
    /\ calls = [p \in Procs |-> Idle]
    /\ calc = NoCalc

\* ------------------------------------------------------------------------
\* Requests a client can send in the current state
\* ------------------------------------------------------------------------
StoredUnder(image_type) ==
    {Basename(k) : k \in {k \in storage :
                             StartsWith(k, image_type \o <<"/">>)}}

\* the filenames a client puts in a path: those it was given, and one more
FilenameInputs ==
    StoredUnder(COVER) \cup StoredUnder(CONTENT) \cup {<<"z", "z", ".", "p", "n", "g">>}
    \cup {posts[i].image_url : i \in {i \in PostIds : posts[i].image_url # None}}
    \cup UNION {ImageSet(posts[i].content) : i \in PostIds}

Plain == <<"h", "i">>

\* the ways a client writes a reference to a stored content image
Targets(f) ==
    {f, object_name_of(CONTENT, f), get_image_full_url(f, CONTENT)}

\* the content a client sends: plain text, text with one reference, or a
\* reference moved behind the text and repeated
ContentInputs ==
    {Plain} \cup
    {<<"!", "[", "a", "]", "(">> \o t \o <<")">> :
        t \in UNION {Targets(f) : f \in StoredUnder(CONTENT)}}
    \cup
    {Plain \o <<"!", "[", "a", "]", "(">> \o f \o <<")", "!", "[", "b", "]", "(">>
           \o f \o <<")">> : f \in StoredUnder(CONTENT)}

\* a form of a client and the faults that strike its request; the client
\* leaves is_active and is_archived at their defaults
ClientForm(content, cover_image, images, keep_cover_image, delete_unused_images, fault) ==
    [form |-> MkForm(content, TRUE, FALSE, cover_image, images.images,
                     images.positions, keep_cover_image, delete_unused_images),
     fault |-> fault]

\* the forms a client sends to create_post: text with or without a cover,
\* or plain text with content images
CreateForms ==
    {ClientForm(c, ci, NoImages, TRUE, FALSE, f) :
        c \in ContentInputs, ci \in CoverInputs \cup {NoFile},
        f \in FaultsUpTo(1, 0)}
    \cup
    {ClientForm(Plain, NoFile, im, TRUE, FALSE, f) :
        im \in ImageInputs, f \in FaultsUpTo(2, 0)}

\* the forms a client sends to update_post for a post: an edit of the text,
\* a new cover with the text as it is, or content images added
UpdateForms(post) ==
    {ClientForm(c, NoFile, NoImages, k, d, f) :
        c \in ContentInputs, k \in BOOLEAN, d \in BOOLEAN,
        f \in FaultsUpTo(0, 1)}
    \cup
    {ClientForm(post.content, ci, NoImages, TRUE, FALSE, f) :
        ci \in CoverInputs, f \in FaultsUpTo(1, 2)}
    \cup
    {ClientForm(c, NoFile, im, TRUE, d, f) :
        c \in {Plain, post.content}, im \in ImageInputs, d \in BOOLEAN,
        f \in FaultsUpTo(2, 0)}

\* the query of add_images_to_post
MkAdd(images, image_type, auto_insert, fault) ==
    [images |-> images, image_type |-> image_type,
     auto_insert |-> auto_insert, fault |-> fault]

AddQueries ==
    {MkAdd(MkImages(b, Absent), COVER, TRUE, f) :
        b \in Batches, f \in FaultsUpTo(1, 1)}
    \cup
    {MkAdd(im, CONTENT, TRUE, f) : im \in ImageInputs, f \in FaultsUpTo(2, 0)}
    \cup
    {MkAdd(MkImages(<<PngFile>>, Absent), CONTENT, FALSE, NoFault)}

\* ------------------------------------------------------------------------
\* Actions: one per request, replace_post_image in three steps
\* ------------------------------------------------------------------------
World(fault) == MkWorld(storage, << >>, uuid, fault)

Response(op, out, req) ==
    [op |-> op, status |-> out.status, filenames |-> out.filenames, req |-> req]

\* a whole request: the handler's outcome becomes the next state
Handle(op, out, req) ==
    /\ out.w.uuid <= MaxUuid + 1
    /\ posts' = out.posts
    /\ storage' = out.w.storage
    /\ uuid' = out.w.uuid
    /\ log' = out.w.log
    /\ resp' = Response(op, out, req)
    /\ rp' = rp
    /\ UNCHANGED <<calls, calc>>

UploadSingleImage ==
    /\ resp = NoRequest
    /\ \E image \in Files, image_type \in ImageTypes,
          fault \in FaultsUpTo(1, 0) :
           \E out \in {upload_single_image(posts, World(fault), image,
                                           image_type)} :
               Handle("upload_single_image", out,
                      [image |-> image, image_type |-> image_type])

UploadMultipleImages ==
    /\ resp = NoRequest
    /\ \E images \in Batches, image_type \in ImageTypes,
          fault \in FaultsUpTo(2, 0) :
           \E out \in {upload_multiple_images(posts, World(fault), images,
                                              image_type)} :
               Handle("upload_multiple_images", out,
                      [images |-> images, image_type |-> image_type])

DeleteImage ==
    /\ resp = NoRequest
    /\ \E filename \in FilenameInputs, image_type \in ImageTypes,
          fault \in FaultsUpTo(0, 1) :
           \E out \in {delete_image(posts, World(fault), filename,
                                    image_type)} :
               Handle("delete_image", out,
                      [filename |-> filename, image_type |-> image_type])

CreatePost ==
    /\ resp = NoRequest
    /\ NextId(posts) # 0
    /\ \E c \in CreateForms :
           \E out \in {create_post(posts, World(c.fault), NextId(posts),
                                   c.form)} :
               Handle("create_post", out, [post_id |-> NextId(posts)])

UpdatePost ==
    /\ resp = NoRequest
    /\ \E post_id \in PostIds :
           \E c \in UpdateForms(posts[post_id]) :
               \E out \in {update_post(posts, World(c.fault), post_id,
                                       c.form)} :
                   Handle("update_post", out,
                          [post_id |-> post_id, content |-> c.form.content,
                           delete_unused_images |->
                               c.form.delete_unused_images,
                           cover_image |-> c.form.cover_image,
                           keep_cover_image |-> c.form.keep_cover_image,
                           is_active |-> c.form.is_active,
                           is_archived |-> c.form.is_archived])

UpdatePostCoverImage ==
    /\ resp = NoRequest
    /\ \E post_id \in PostIds, cover_image \in CoverInputs \cup {NoFile},
          fault \in FaultsUpTo(1, 1) :
           \E out \in {update_post_cover_image(posts, World(fault), post_id,
                                               cover_image)} :
               Handle("update_post_cover_image", out, [post_id |-> post_id])

DeletePostCoverImage ==
    /\ resp = NoRequest
    /\ \E post_id \in PostIds, fault \in FaultsUpTo(0, 1) :
           \E out \in {delete_post_cover_image(posts, World(fault), post_id)} :
               Handle("delete_post_cover_image", out, [post_id |-> post_id])

AddImagesToPost ==
    /\ resp = NoRequest
    /\ \E post_id \in PostIds, q \in AddQueries :
           \E out \in {add_images_to_post(posts, World(q.fault), post_id,
                                          q.images.images, q.image_type,
                                          q.auto_insert, q.images.positions)} :
               Handle("add_images_to_post", out,
                      [post_id |-> post_id, image_type |-> q.image_type])

\* the request of delete_post_image and replace_post_image, the filename
\* as the handler extracts it
ImageRequest(post_id, filename, image_type, update_content) ==
    [post_id |-> post_id, filename |-> ExtractOr(filename),
     image_type |-> image_type, update_content |-> update_content]

DeletePostImage ==
    /\ resp = NoRequest
    /\ \E post_id \in PostIds, filename \in FilenameInputs,
          image_type \in ImageTypes, update_content \in BOOLEAN,
          fault \in FaultsUpTo(0, 1) :
           \E out \in {delete_post_image(posts, World(fault), post_id, filename,
                                         image_type, update_content)} :
               Handle("delete_post_image", out,
                      ImageRequest(post_id, filename, image_type, update_content))

\* replace_post_image, first step: the checks and the upload
ReplacePostImageUpload ==
    /\ resp = NoRequest
    /\ \E post_id \in PostIds, old_filename \in FilenameInputs,
          new_image \in CoverInputs, image_type \in ImageTypes,
          update_content \in BOOLEAN, fault \in FaultsUpTo(1, 1) :
           \E out \in {replace_post_image_upload(posts, World(fault), post_id,
                                                 old_filename, new_image,
                                                 image_type)} :
               /\ out.w.uuid <= MaxUuid + 1
               /\ posts' = out.posts
               /\ storage' = out.w.storage
               /\ uuid' = out.w.uuid
               /\ log' = out.w.log
               /\ resp' = Response("replace_post_image", out,
                                   ImageRequest(post_id, old_filename, image_type,
                                                update_content))
               /\ rp' = IF out.status # 0 THEN Idle
                        ELSE [pc |-> "delete",
                              is_cover |-> is_cover_of(posts[post_id],
                                                       ExtractOr(old_filename),
                                                       image_type),
                              fault |-> fault]
               /\ UNCHANGED <<calls, calc>>

\* replace_post_image, second step: the delete of the old object
ReplacePostImageDelete ==
    /\ rp.pc = "delete"
    /\ \E w \in {replace_post_image_delete(
                     MkWorld(storage, log, uuid, rp.fault),
                     resp.req.filename, resp.req.image_type)} :
           /\ storage' = w.storage
           /\ log' = w.log
    /\ rp' = [rp EXCEPT !.pc = "commit"]
    /\ UNCHANGED <<posts, uuid, resp, calls, calc>>

\* replace_post_image, last step: the rewrite, the commit and the response
ReplacePostImageCommit ==
    /\ rp.pc = "commit"
    /\ posts' = replace_post_image_commit(posts, resp.req.post_id,
                                          resp.req.filename,
                                          resp.filenames[1], rp.is_cover,
                                          resp.req.image_type,
                                          resp.req.update_content)
    /\ resp' = [resp EXCEPT !.status = 200]
    /\ rp' = Idle
    /\ UNCHANGED <<storage, uuid, log, calls, calc>>

\* the response reaches the client, which may then send its next request
Respond ==
    /\ resp.status # 0
    /\ resp' = NoRequest
    /\ log' = << >>
    /\ UNCHANGED <<posts, storage, uuid, rp, calls, calc>>

Next ==
    \/ UploadSingleImage
    \/ UploadMultipleImages
    \/ DeleteImage
    \/ CreatePost
    \/ UpdatePost
    \/ UpdatePostCoverImage
    \/ DeletePostCoverImage
    \/ AddImagesToPost
    \/ DeletePostImage
    \/ ReplacePostImageUpload
    \/ ReplacePostImageDelete
    \/ ReplacePostImageCommit
    \/ Respond

Spec == Init /\ [][Next]_vars


\* the post operations alone: create_post, update_post,
\* update_post_cover_image, delete_post_cover_image, replace_post_image and
\* add_images_to_post, each followed by its response
PostOpsNext ==
    \/ CreatePost
    \/ UpdatePost
    \/ UpdatePostCoverImage
    \/ DeletePostCoverImage
    \/ AddImagesToPost
    \/ ReplacePostImageUpload
    \/ ReplacePostImageDelete
    \/ ReplacePostImageCommit
    \/ Respond

PostOpsSpec == Init /\ [][PostOpsNext]_vars

ArchivePost ==
    /\ resp = NoRequest
    /\ \E post_id \in PostIds :
           \E out \in {archive_post(posts, World(NoFault), post_id)} :
               Handle("archive_post", out, [post_id |-> post_id])

UnarchivePost ==
    /\ resp = NoRequest
    /\ \E post_id \in PostIds :
           \E out \in {unarchive_post(posts, World(NoFault), post_id)} :
               Handle("unarchive_post", out, [post_id |-> post_id])

ActivatePost ==
    /\ resp = NoRequest
    /\ \E post_id \in PostIds :
           \E out \in {activate_post(posts, World(NoFault), post_id)} :
               Handle("activate_post", out, [post_id |-> post_id])

DeactivatePost ==
    /\ resp = NoRequest
    /\ \E post_id \in PostIds :
           \E out \in {deactivate_post(posts, World(NoFault), post_id)} :
               Handle("deactivate_post", out, [post_id |-> post_id])

\* the forms of update_post that edit nothing and give is_active and
\* is_archived; true and false are also what the omitted fields default to
StatusForms(post) ==
    {MkForm(post.content, a, r, NoFile, << >>, Absent, TRUE, FALSE) :
        a \in BOOLEAN, r \in BOOLEAN}

\* update_post sent for the status of the post; `before` is the row as the
\* request found it
UpdatePostStatus ==
    /\ resp = NoRequest
    /\ \E post_id \in PostIds :
           \E form \in StatusForms(posts[post_id]) :
               \E out \in {update_post(posts, World(NoFault), post_id, form)} :
                   Handle("update_post", out,
                          [post_id |-> post_id, content |-> form.content,
                           delete_unused_images |-> form.delete_unused_images,
                           cover_image |-> form.cover_image,
                           keep_cover_image |-> form.keep_cover_image,
                           is_active |-> form.is_active,
                           is_archived |-> form.is_archived,
                           before |-> posts[post_id]])

DeletePost ==
    /\ resp = NoRequest
    /\ \E post_id \in PostIds, delete_images \in BOOLEAN,
          fault \in FaultsUpTo(0, 2) :
           \E out \in {delete_post(posts, World(fault), post_id,
                                   delete_images)} :
               Handle("delete_post", out,
                      [post_id |-> post_id, delete_images |-> delete_images])

\* list_images reads the bucket and the posts table and changes neither
ListImages ==
    /\ resp = NoRequest
    /\ \E image_type \in ImageTypes \cup {None}, show_archived \in BOOLEAN,
          show_inactive \in BOOLEAN :
           resp' = [op |-> "list_images", status |-> 200, filenames |-> << >>,
                    images |-> list_images(posts, storage, image_type,
                                           show_archived, show_inactive),
                    req |-> [image_type |-> image_type,
                             show_archived_post_images |-> show_archived,
                             show_inactive_post_images |-> show_inactive]]
    /\ log' = << >>
    /\ UNCHANGED <<posts, storage, uuid, rp, calls, calc>>

\* serve_post_image reads the posts table and the bucket and changes
\* neither; the filename is one segment of the path
ServePostImage ==
    /\ resp = NoRequest
    /\ \E post_id \in PostIds, image_type \in ImageTypes,
          filename \in FilenameInputs :
           resp' = [op |-> "serve_post_image",
                    status |-> serve_post_image(posts, storage, post_id,
                                                image_type, filename),
                    filenames |-> << >>,
                    req |-> [post_id |-> post_id, image_type |-> image_type,
                             filename |-> filename]]
    /\ log' = << >>
    /\ UNCHANGED <<posts, storage, uuid, rp, calls, calc>>

\* the audit reads the bucket and the posts table and changes neither
FindOrphanedImages ==
    /\ resp = NoRequest
    /\ resp' = [op |-> "find_orphaned_images", status |-> 200,
                filenames |-> << >>,
                orphaned |-> find_orphaned_images(posts, storage)]
    /\ log' = << >>
    /\ UNCHANGED <<posts, storage, uuid, rp, calls, calc>>

\* the audit among the operations that make and unmake references and
\* that change the status of a post
AuditNext ==
    \/ CreatePost
    \/ UpdatePost
    \/ ArchivePost
    \/ UnarchivePost
    \/ ActivatePost
    \/ DeactivatePost
    \/ UpdatePostStatus
    \/ DeletePost
    \/ ListImages
    \/ ServePostImage
    \/ FindOrphanedImages
    \/ Respond

AuditSpec == Init /\ [][AuditNext]_vars

\* ------------------------------------------------------------------------
\* update_post_cover_image run by two workers side by side: each request is
\* four steps, the row being read once, at the start, into the request's own
\* session
\* ------------------------------------------------------------------------
\* a request of worker p past its checks
MkCall(pc, post_id, cover_image, post, seen) ==
    [pc |-> pc, post_id |-> post_id, cover_image |-> cover_image,
     post |-> post, new |-> None, status |-> 0, seen |-> seen, rank |-> 0]

\* the number of requests that have committed
Committed(cs) == Cardinality({p \in Procs : cs[p].pc = "done" /\ cs[p].rank > 0})

\* the row re-read from the table at each use
loaded_post_refreshed(call, ps) == ps[call.post_id]

\* `post`, the object get_post returned: its attributes are those of the
\* row when it was loaded
loaded_post(call, ps) == call.post

\* `post = post_crud.get_post(db, post_id)` and the two checks
CoverLoad ==
    \E p \in Procs, post_id \in PostIds, cover_image \in CoverInputs \cup {NoFile} :
        /\ calls[p].pc = "idle"
        /\ calls' = [calls EXCEPT ![p] =
               IF ~posts[post_id].exists
               THEN [MkCall("done", post_id, cover_image, posts[post_id],
                            Committed(calls)) EXCEPT !.status = 404]
               ELSE IF cover_image.filename = << >>
               THEN [MkCall("done", post_id, cover_image, posts[post_id],
                            Committed(calls)) EXCEPT !.status = 400]
               ELSE MkCall("save", post_id, cover_image, posts[post_id],
                           Committed(calls))]
        /\ UNCHANGED <<posts, storage, uuid, log, resp, rp, calc>>

\* `cover_img_filename = save_image(cover_image, "cover")`
CoverSave ==
    \E p \in Procs :
        /\ calls[p].pc = "save"
        /\ uuid <= MaxUuid
        /\ \E saved \in {save_image(World(NoFault), calls[p].cover_image, COVER)} :
               /\ storage' = saved.w.storage
               /\ uuid' = saved.w.uuid
               /\ calls' = [calls EXCEPT ![p].pc = "delete",
                                         ![p].new = saved.result]
        /\ UNCHANGED <<posts, log, resp, rp, calc>>

\* `if post.image_url: delete_image_from_minio(post.image_url, "cover")`
CoverDeleteOld ==
    \E p \in Procs :
        /\ calls[p].pc = "delete"
        /\ storage' = delete_old_cover(World(NoFault),
                                       loaded_post(calls[p], posts)).storage
        /\ calls' = [calls EXCEPT ![p].pc = "commit"]
        /\ UNCHANGED <<posts, uuid, log, resp, rp, calc>>

\* `post.image_url = cover_img_filename; db.commit()` and the response
CoverCommit ==
    \E p \in Procs :
        /\ calls[p].pc = "commit"
        /\ posts' = [posts EXCEPT ![calls[p].post_id].image_url = calls[p].new]
        /\ calls' = [calls EXCEPT ![p].pc = "done", ![p].status = 200,
                                  ![p].rank = Committed(calls) + 1]
        /\ UNCHANGED <<storage, uuid, log, resp, rp, calc>>

ConcNext ==
    \/ CreatePost
    \/ Respond
    \/ CoverLoad
    \/ CoverSave
    \/ CoverDeleteOld
    \/ CoverCommit

ConcSpec == Init /\ [][ConcNext]_vars

\* ------------------------------------------------------------------------
\* delete_post_image and add_images_to_post on content images, run by the
\* workers side by side: each request reads the row once, at the start,
\* into its own session, and its commit writes the content it computed
\* from that row
\* ------------------------------------------------------------------------
\* a request of a worker: `post` is the row get_post returned, `filename`
\* the image to delete, `images` the uploads, `saved` the saved filenames
MkContentCall(op, pc, post_id, post, filename, images, status) ==
    [op |-> op, pc |-> pc, post_id |-> post_id, post |-> post,
     filename |-> filename, images |-> images, saved |-> << >>,
     status |-> status]

\* delete_post_image(image_type="content", update_content=True): get_post,
\* the extraction of the filename and the membership check
DeleteLoad ==
    \E p \in Procs, post_id \in PostIds, filename \in FilenameInputs :
        /\ calls[p].pc = "idle"
        /\ calls' = [calls EXCEPT ![p] =
               IF ~posts[post_id].exists
               THEN MkContentCall("delete_post_image", "done", post_id,
                                  posts[post_id], ExtractOr(filename), << >>, 404)
               ELSE IF NotInContent(posts[post_id], ExtractOr(filename), CONTENT)
               THEN MkContentCall("delete_post_image", "done", post_id,
                                  posts[post_id], ExtractOr(filename), << >>, 404)
               ELSE MkContentCall("delete_post_image", "remove", post_id,
                                  posts[post_id], ExtractOr(filename), << >>, 0)]
        /\ UNCHANGED <<posts, storage, uuid, log, resp, rp, calc>>

\* `success = delete_image_from_minio(filename, image_type)`
DeleteRemove ==
    \E p \in Procs :
        /\ calls[p].pc = "remove"
        /\ storage' = delete_image_from_minio(World(NoFault), calls[p].filename,
                                              CONTENT).w.storage
        /\ calls' = [calls EXCEPT ![p].pc = "commit"]
        /\ UNCHANGED <<posts, uuid, log, resp, rp, calc>>

\* `post.content = _remove_image_from_content(post.content, filename)`,
\* the commit and the response
DeleteCommit ==
    \E p \in Procs :
        /\ calls[p].pc = "commit"
        /\ calls[p].op = "delete_post_image"
        /\ posts' = [posts EXCEPT ![calls[p].post_id].content =
                         _remove_image_from_content(calls[p].post.content,
                                                    calls[p].filename)]
        /\ calls' = [calls EXCEPT ![p].pc = "done", ![p].status = 200]
        /\ UNCHANGED <<storage, uuid, log, resp, rp, calc>>

\* add_images_to_post(image_type="content", auto_insert=True, no
\* positions): get_post
AddLoad ==
    \E p \in Procs, post_id \in PostIds, images \in {<<PngFile>>, <<TxtFile>>} :
        /\ calls[p].pc = "idle"
        /\ calls' = [calls EXCEPT ![p] =
               IF ~posts[post_id].exists
               THEN MkContentCall("add_images_to_post", "done", post_id,
                                  posts[post_id], None, images, 404)
               ELSE MkContentCall("add_images_to_post", "save", post_id,
                                  posts[post_id], None, images, 0)]
        /\ UNCHANGED <<posts, storage, uuid, log, resp, rp, calc>>

\* `filenames = save_multiple_images(...)` and the check that follows
AddSave ==
    \E p \in Procs :
        /\ calls[p].pc = "save"
        /\ uuid <= MaxUuid
        /\ \E saved \in {save_multiple_images(World(NoFault),
                                               WithFilename(calls[p].images),
                                               CONTENT)} :
               /\ storage' = saved.w.storage
               /\ uuid' = saved.w.uuid
               /\ calls' = [calls EXCEPT
                               ![p].saved = saved.results,
                               ![p].pc = IF saved.results = << >> THEN "done"
                                         ELSE "commit",
                               ![p].status = IF saved.results = << >> THEN 400
                                             ELSE 0]
        /\ UNCHANGED <<posts, log, resp, rp, calc>>

\* `post.content = _insert_images_into_content(post.content, filenames)`,
\* the commit and the response
AddCommit ==
    \E p \in Procs :
        /\ calls[p].pc = "commit"
        /\ calls[p].op = "add_images_to_post"
        /\ posts' = [posts EXCEPT ![calls[p].post_id].content =
                         _insert_images_into_content(calls[p].post.content,
                                                     calls[p].saved)]
        /\ calls' = [calls EXCEPT ![p].pc = "done", ![p].status = 200]
        /\ UNCHANGED <<storage, uuid, log, resp, rp, calc>>

ContentRaceNext ==
    \/ CreatePost
    \/ Respond
    \/ DeleteLoad
    \/ DeleteRemove
    \/ DeleteCommit
    \/ AddLoad
    \/ AddSave
    \/ AddCommit

ContentRaceSpec == Init /\ [][ContentRaceNext]_vars

\* ------------------------------------------------------------------------
\* The content helpers applied on their own
\* ------------------------------------------------------------------------
MaxContentLen == 3

MaxPositions == 3

\* strings of at most n characters of the alphabet cs
Strings(cs, n) == UNION {[1..k -> cs] : k \in 0..n}

\* the filenames save_image generates for the files clients upload, among
\* them a file whose name ends in a dot
GeneratedFilenames ==
    {save_image(MkWorld({}, << >>, 1, NoFault), f, CONTENT).result :
        f \in Files \cup {MkFile(<<"a", ".">>, IMAGE_PREFIX \o <<"p","n","g">>)}}

\* lists of at most two generated filenames, repeats among them
FilenameLists == UNION {[1..k -> GeneratedFilenames] : k \in 0..2}

\* an application of a helper to its arguments, not yet evaluated
MkCalc(fn, content, filenames, positions) ==
    [fn |-> fn, content |-> content, filenames |-> filenames,
     positions |-> positions, done |-> FALSE, out |-> None]

\* position lists for a content: up to MaxPositions entries with distinct
\* indexes within the content, each naming one of the two images
PositionLists(content) ==
    {e \in UNION {[1..k -> {Pos(i, n) : i \in 0..Len(content), n \in 0..1}] :
                    k \in 1..MaxPositions} :
        \A a \in DOMAIN e, b \in DOMAIN e : a # b => e[a].index # e[b].index}

\* number of pieces a content given to the removal is made of
MaxPieces == 6

\* the links to one image in a generated content
MaxLinks == 2

\* the pieces of a content around a reference to filename f: the parts of
\* an image markdown and a newline
RemovalPieces(f) ==
    {<<"!">>, <<"[", "a", "]">>,
     <<"(">> \o get_image_full_url(f, CONTENT) \o <<")">>, <<NL>>}

\* how many times x is in the list s
Occurrences(s, x) == Cardinality({i \in DOMAIN s : s[i] = x})

\* the sequences of at most MaxPieces pieces with at most MaxLinks links
RemovalSequences(f) ==
    {p \in Strings(RemovalPieces(f), MaxPieces) :
        Occurrences(p, <<"(">> \o get_image_full_url(f, CONTENT) \o <<")">>) <= MaxLinks}

RECURSIVE Concat(_)
Concat(pieces) ==
    IF pieces = << >> THEN << >> ELSE Head(pieces) \o Concat(Tail(pieces))

\* the contents of at most MaxPieces pieces in which the scanner finds
\* exactly one reference to f
RemovalContents(f) ==
    {c \in {Concat(p) : p \in RemovalSequences(f)} :
        Occurrences(find_images_in_content(c), f) = 1}

\* the bare filenames given to the codec: short names without a slash,
\* and the filenames save_image generates, among them the one for an
\* upload named `a.p#g`
CodecFilenames ==
    Strings({"a", ".", "#", "?", ";"}, MaxContentLen) \cup GeneratedFilenames
    \cup {save_image(MkWorld({}, << >>, 1, NoFault),
                     MkFile(<<"a", ".", "p", "#", "g">>,
                            IMAGE_PREFIX \o <<"p","n","g">>), CONTENT).result}

\* the forms an image identifier takes: a bare filename, a relative path
\* and a full URL, under either namespace
Identifiers(f) ==
    {f} \cup {object_name_of(t, f) : t \in ImageTypes}
        \cup {get_image_full_url(f, t) : t \in ImageTypes}

CalcInputs ==
    {[fn |-> "delete_image_from_minio", image_identifier |-> x,
      image_type |-> t, done |-> FALSE, out |-> None] :
        x \in UNION {Identifiers(f) : f \in GeneratedFilenames \ {None}},
        t \in ImageTypes}
    \cup
    {[fn |-> "get_image_full_url", filename |-> f, image_type |-> t,
      done |-> FALSE, out |-> None] :
        f \in CodecFilenames, t \in ImageTypes}
    \cup
    {MkCalc("_remove_image_from_content", c,
            <<Uuid(1) \o <<".", "p", "n", "g">>>>, Absent) :
        c \in RemovalContents(Uuid(1) \o <<".", "p", "n", "g">>)}
    \cup
    {MkCalc("_insert_images_into_content", c, fs, Absent) :
        c \in Strings({"!", "[", "]", "(", ")", ".", "a"}, MaxContentLen),
        fs \in FilenameLists}
    \cup
    UNION {{MkCalc("process_positions", c,
                   <<Uuid(1) \o <<".", "p", "n", "g">>,
                     Uuid(2) \o <<".", "p", "n", "g">>>>,
                   MkPositions("valid", e)) : e \in PositionLists(c)} :
              c \in {SubSeq(Lowers, 1, k) : k \in 0..MaxContentLen}}
    \cup
    {MkCalc("process_positions", Plain, <<Uuid(1) \o <<".", "p", "n", "g">>>>,
            MkPositions(kind, << >>)) :
        kind \in {"invalid_json", "scalar", "array", "no_list", "bad_entries"}}

CalcInit ==
    /\ posts = [i \in PostIds |-> NoPost]
    /\ storage = {}
    /\ uuid = 1
    /\ log = << >>
    /\ resp = NoRequest
    /\ rp = Idle
    /\ calls = [p \in Procs |-> Idle]
    /\ calc \in CalcInputs

InsertImagesIntoContent ==
    /\ calc.fn = "_insert_images_into_content"
    /\ ~calc.done
    /\ calc' = [calc EXCEPT !.done = TRUE,
                            !.out = _insert_images_into_content(
                                        calc.content, calc.filenames)]
    /\ UNCHANGED <<posts, storage, uuid, log, resp, rp, calls>>

\* find_images_in_content applied to what _insert_images_into_content made
FindImagesInContent ==
    /\ calc.fn = "_insert_images_into_content"
    /\ calc.done
    /\ calc' = [fn |-> "find_images_in_content", content |-> calc.out,
                done |-> TRUE, out |-> find_images_in_content(calc.out),
                inserted |-> calc.filenames, into |-> calc.content]
    /\ UNCHANGED <<posts, storage, uuid, log, resp, rp, calls>>

ProcessPositions ==
    /\ calc.fn = "process_positions"
    /\ ~calc.done
    /\ calc' = [calc EXCEPT !.done = TRUE,
                            !.out = process_positions(calc.content,
                                                      calc.filenames,
                                                      calc.positions)]
    /\ UNCHANGED <<posts, storage, uuid, log, resp, rp, calls>>

\* _remove_image_from_content applied to a content and a filename
RemoveImageFromContent ==
    /\ calc.fn = "_remove_image_from_content"
    /\ ~calc.done
    /\ calc' = [calc EXCEPT !.done = TRUE,
                            !.out = _remove_image_from_content(
                                        calc.content, calc.filenames[1])]
    /\ UNCHANGED <<posts, storage, uuid, log, resp, rp, calls>>

\* _remove_image_from_content applied once more, to its own result
RemoveImageFromContentAgain ==
    /\ calc.fn = "_remove_image_from_content"
    /\ calc.done
    /\ calc' = [fn |-> "_remove_image_from_content_again",
                content |-> calc.out, done |-> TRUE,
                out |-> _remove_image_from_content(calc.out, calc.filenames[1]),
                removed |-> calc.filenames[1], from |-> calc.content]
    /\ UNCHANGED <<posts, storage, uuid, log, resp, rp, calls>>

\* _remove_image_from_content applied to what _insert_images_into_content
\* made of a content and one filename
RemoveInsertedImage ==
    /\ calc.fn = "_insert_images_into_content"
    /\ calc.done
    /\ Len(calc.filenames) = 1
    /\ calc' = [fn |-> "insert_then_remove", content |-> calc.out,
                done |-> TRUE,
                out |-> _remove_image_from_content(calc.out, calc.filenames[1]),
                removed |-> calc.filenames[1], into |-> calc.content]
    /\ UNCHANGED <<posts, storage, uuid, log, resp, rp, calls>>

GetImageFullUrl ==
    /\ calc.fn = "get_image_full_url"
    /\ ~calc.done
    /\ calc' = [calc EXCEPT !.done = TRUE,
                            !.out = get_image_full_url(calc.filename,
                                                       calc.image_type)]
    /\ UNCHANGED <<posts, storage, uuid, log, resp, rp, calls>>

\* extract_filename_from_path applied to what get_image_full_url made
ExtractFilenameFromPath ==
    /\ calc.fn = "get_image_full_url"
    /\ calc.done
    /\ calc' = [fn |-> "extract_filename_from_path", path_or_url |-> calc.out,
                done |-> TRUE, out |-> extract_filename_from_path(calc.out),
                filename |-> calc.filename, image_type |-> calc.image_type]
    /\ UNCHANGED <<posts, storage, uuid, log, resp, rp, calls>>

\* delete_image_from_minio applied to an identifier, the bucket holding an
\* object of that filename in each namespace: the keys of its remove_object
\* calls
DeleteImageFromMinio ==
    /\ calc.fn = "delete_image_from_minio"
    /\ ~calc.done
    /\ \E del \in {delete_image_from_minio(
                        MkWorld({object_name_of(t, ExtractOr(calc.image_identifier)) :
                                    t \in ImageTypes}, << >>, 1, NoFault),
                        calc.image_identifier, calc.image_type)} :
           calc' = [calc EXCEPT !.done = TRUE,
                                !.out = [i \in DOMAIN del.w.log |->
                                            del.w.log[i].key]]
    /\ UNCHANGED <<posts, storage, uuid, log, resp, rp, calls>>

CalcNext ==
    \/ InsertImagesIntoContent
    \/ FindImagesInContent
    \/ ProcessPositions
    \/ RemoveImageFromContent
    \/ RemoveImageFromContentAgain
    \/ RemoveInsertedImage
    \/ GetImageFullUrl
    \/ ExtractFilenameFromPath
    \/ DeleteImageFromMinio

CalcSpec == CalcInit /\ [][CalcNext]_vars

\* ------------------------------------------------------------------------
\* Properties
\* ------------------------------------------------------------------------
\* the put_object calls of a request, in order
IsPut(e) == e.op = "put"

Puts(lg) == SelectSeq(lg, IsPut)

\* some put_object call of the request raised
PutFailed(lg) == \E i \in DOMAIN lg : lg[i].op = "put" /\ ~lg[i].ok

\* some remove_object call of the request raised
DeleteFailed(lg) == \E i \in DOMAIN lg : lg[i].op = "delete" /\ ~lg[i].ok

\* the keys the request has removed from the bucket
DeletedBy(lg) ==
    {lg[i].key : i \in {i \in DOMAIN lg : lg[i].op = "delete" /\ lg[i].ok}}

\* the keys the request has asked the bucket to remove
DeleteAttempted(lg) ==
    {lg[i].key : i \in {i \in DOMAIN lg : lg[i].op = "delete"}}

\* a response is ready for the request `op`
Responded(op) == resp.op = op /\ resp.status # 0

\* the step is the handler of a request `op` (for replace_post_image, its
\* first step)
Handles(op) == resp = NoRequest /\ resp'.op = op

\* the post a request with a post_id is about
ThePost == posts[resp.req.post_id]

\* C1: while replace_post_image (with update_content) runs and after it,
\* post.content references no filename whose object under content/ this
\* request has deleted: the content is rewritten before the delete.
C1_NoReferenceToDeletedObject ==
    (resp.op = "replace_post_image" /\ resp.req.update_content) =>
        \A f \in ImageSet(ThePost.content) :
            object_name_of(CONTENT, f) \notin DeletedBy(log)

\* C2: after a successful replace_post_image of a content image with
\* update_content, whatever the form of the reference that made the
\* membership check pass, post.content references the new filename and not
\* the old one, and a delete of the old object was attempted.
C2_ReplaceRewritesEveryReference ==
    (/\ Responded("replace_post_image")
     /\ resp.status = 200
     /\ resp.req.image_type = CONTENT
     /\ resp.req.update_content)
    => /\ resp.filenames[1] \in ImageSet(ThePost.content)
       /\ resp.req.filename \notin ImageSet(ThePost.content)
       /\ object_name_of(CONTENT, resp.req.filename) \in DeleteAttempted(log)

\* C3 (invariant I2): after any sequence of post operations, put failures
\* included, the non-null cover of a post names an object present under
\* cover/.
C3_CoverObjectPresent ==
    rp = Idle =>
        \A i \in PostIds :
            (posts[i].exists /\ posts[i].image_url # None)
            => object_name_of(COVER, posts[i].image_url) \in storage

UploadingOps ==
    {"upload_single_image", "create_post", "update_post",
     "update_post_cover_image", "replace_post_image"}

\* C4: a request of an uploading operation in which a put_object call fails
\* is answered with an error, and neither changes the cover of a post nor
\* removes the object of a cover.
C4_PutFailureIsAnError ==
    [][(/\ \E op \in UploadingOps : Handles(op)
        /\ PutFailed(log'))
       => /\ resp'.status >= 400
          /\ \A i \in PostIds :
                /\ posts'[i].image_url = posts[i].image_url
                /\ (posts[i].image_url # None
                    /\ object_name_of(COVER, posts[i].image_url) \in storage)
                   => object_name_of(COVER, posts[i].image_url) \in storage'
      ]_vars

\* C5: no request calls put_object for a file that neither declares an
\* image/* content type nor has a recognized image extension.
C5_OnlyImagesAreStored ==
    \A i \in DOMAIN log : log[i].op = "put" => is_image_file(log[i].file)

\* C6: upload_single_image rejects a file as not an image (400) exactly
\* when the file neither declares an image/* content type nor has a
\* recognized extension.
C6_SingleUploadAcceptsImages ==
    Responded("upload_single_image")
    => (resp.status = 400 <=> ~is_image_file(resp.req.image))

\* the filenames of the objects a request has stored, in order
StoredNames(lg) ==
    [i \in DOMAIN SelectSeq(Puts(lg), LAMBDA e : e.ok) |->
        Basename(SelectSeq(Puts(lg), LAMBDA e : e.ok)[i].key)]

\* the files a request has called put_object for, in order
PutFiles(lg) == [i \in DOMAIN Puts(lg) |-> Puts(lg)[i].file]

\* C7: upload_multiple_images calls put_object for exactly the valid files
\* of the batch, in input order, whatever the other files are; it returns
\* the filenames of the stored objects in that order, and succeeds when
\* every valid file was stored and there is one.
C7_BatchUploadSkipsInvalidFiles ==
    Responded("upload_multiple_images")
    => /\ PutFiles(log) = SelectSeq(resp.req.images, is_image_file)
       /\ resp.filenames = StoredNames(log)
       /\ (StoredNames(log) # << >> /\ ~PutFailed(log)) => resp.status = 200

\* C8: replace_post_image and delete_post_image for a content image whose
\* filename is not among find_images_in_content(post.content) answer 404
\* without a storage call and leave the posts and the bucket as they were.
C8_UnreferencedImageIsNotFound ==
    [][(/\ Handles("replace_post_image") \/ Handles("delete_post_image")
        /\ resp'.req.image_type = CONTENT
        /\ posts[resp'.req.post_id].exists
        /\ ~Contains(find_images_in_content(posts[resp'.req.post_id].content),
                     resp'.req.filename))
       => /\ resp'.status = 404
          /\ log' = << >>
          /\ posts' = posts
          /\ storage' = storage
          /\ rp' = Idle
      ]_vars

\* replace_post_image has answered 404 for a content image that is stored
\* under content/ but that the post's content does not reference
C8_Witness ==
    /\ Responded("replace_post_image")
    /\ resp.status = 404
    /\ resp.req.image_type = CONTENT
    /\ ThePost.exists
    /\ object_name_of(CONTENT, resp.req.filename) \in storage
    /\ ~Contains(find_images_in_content(ThePost.content), resp.req.filename)
    /\ log = << >>

\* C9: delete_post_image and delete_image answer a failed remove_object
\* with an error; the posts are left as they were, and so is the bucket.
C9_DeleteFailureIsAnError ==
    [][(/\ Handles("delete_post_image") \/ Handles("delete_image")
        /\ DeleteFailed(log'))
       => /\ resp'.status >= 400
          /\ posts' = posts
          /\ storage' = storage
      ]_vars

\* delete_post_image has answered 500 for a content image the post
\* references and whose remove_object call failed
C9_Witness ==
    /\ Responded("delete_post_image")
    /\ resp.status = 500
    /\ resp.req.image_type = CONTENT
    /\ resp.req.update_content
    /\ DeleteFailed(log)
    /\ resp.req.filename \in ImageSet(ThePost.content)
    /\ object_name_of(CONTENT, resp.req.filename) \in storage

\* `url` is the target of an image reference of `content`
ReferencesUrl(content, url) == SubRemove(content, url, 1) # content

\* what a request with a best-effort delete commits: the new cover, the
\* content sent, the rewritten references
CommittedNew ==
    CASE resp.op \in {"update_post_cover_image", "add_images_to_post"} ->
             ThePost.image_url = resp.filenames[1]
      [] resp.op = "update_post" ->
             /\ \A i \in DOMAIN log :
                    (/\ log[i].op = "put"
                     /\ StartsWith(log[i].key, COVER \o <<"/">>))
                    => ThePost.image_url = Basename(log[i].key)
             /\ resp.filenames = << >>
                => ThePost.content = content_not_empty(resp.req.content)
      [] resp.op = "replace_post_image" ->
             /\ resp.req.image_type = COVER =>
                    ThePost.image_url # resp.req.filename
             /\ (resp.req.image_type = CONTENT /\ resp.req.update_content) =>
                    ~ReferencesUrl(ThePost.content,
                                   get_image_full_url(resp.req.filename,
                                                      CONTENT))

\* C10: a request of update_post_cover_image, update_post,
\* replace_post_image or add_images_to_post (cover) whose uploads are
\* stored and whose delete of an old object fails is answered with success
\* and has committed its new cover and content.
C10_CleanupFailureDoesNotBlock ==
    (/\ resp.op \in {"update_post_cover_image", "update_post",
                    "replace_post_image", "add_images_to_post"}
     /\ resp.op = "add_images_to_post" => resp.req.image_type = COVER
     /\ resp.status # 0
     /\ DeleteFailed(log)
     /\ ~PutFailed(log))
    => resp.status = 200 /\ CommittedNew

\* update_post_cover_image has answered 200 and committed the new cover
\* although the delete of the old cover failed, the old object still there
C10_Witness ==
    /\ Responded("update_post_cover_image")
    /\ resp.status = 200
    /\ DeleteFailed(log)
    /\ ThePost.image_url = resp.filenames[1]
    /\ Cardinality({k \in storage : StartsWith(k, COVER \o <<"/">>)}) = 2

\* C11: update_post_cover_image called on a post whose cover was set by an
\* earlier upload, its own upload succeeding, leaves the post's cover equal
\* to the filename of the second upload and asks the bucket to delete the
\* key cover/{first upload's filename}.
C11_SecondCoverReplacesFirst ==
    [][(/\ Handles("update_post_cover_image")
        /\ resp'.status = 200
        /\ ~PutFailed(log')
        /\ posts[resp'.req.post_id].image_url # None)
       => /\ Len(Puts(log')) = 1
          /\ resp'.filenames = <<Basename(Puts(log')[1].key)>>
          /\ posts'[resp'.req.post_id].image_url = resp'.filenames[1]
          /\ posts'[resp'.req.post_id].image_url
                 # posts[resp'.req.post_id].image_url
          /\ object_name_of(COVER, posts[resp'.req.post_id].image_url)
                 \in DeleteAttempted(log')]_vars

\* the second of two covers is in place and the first was asked to go
C11_Witness ==
    /\ Responded("update_post_cover_image")
    /\ resp.status = 200
    /\ ~PutFailed(log)
    /\ StartsWith(ThePost.image_url, Uuid(2))
    /\ ThePost.image_url = resp.filenames[1]
    /\ \E k \in DeleteAttempted(log) :
           StartsWith(k, object_name_of(COVER, Uuid(1)))

\* C12: delete_post_cover_image on a post asks the bucket to delete the
\* post's current cover object under cover/ and sets the cover to null
\* whether or not the delete succeeded; the content is unchanged.
C12_DetachCoverClearsCover ==
    [][(/\ Handles("delete_post_cover_image")
        /\ posts[resp'.req.post_id].exists)
       => /\ resp'.status = 200
          /\ posts'[resp'.req.post_id].image_url = None
          /\ posts'[resp'.req.post_id].content
                 = posts[resp'.req.post_id].content
          /\ posts[resp'.req.post_id].image_url # None
                 => DeleteAttempted(log')
                        = {object_name_of(COVER,
                                          posts[resp'.req.post_id].image_url)}
         ]_vars

\* the cover is cleared although its object could not be deleted
C12_Witness ==
    /\ Responded("delete_post_cover_image")
    /\ resp.status = 200
    /\ DeleteFailed(log)
    /\ ThePost.image_url = None
    /\ DeleteAttempted(log) \subseteq storage

\* the keys under content/ among a set of keys
ContentKeys(keys) == {k \in keys : StartsWith(k, CONTENT \o <<"/">>)}

\* C13: with cleanup enabled, update_post asks the bucket to delete, under
\* content/, exactly the filenames referenced by the old content and not by
\* the new one; a filename referenced by both is never deleted.
C13_CleanupIsSetDifference ==
    [][(Handles("update_post") /\ resp'.req.delete_unused_images)
       => ContentKeys(DeleteAttempted(log'))
             = {object_name_of(CONTENT, f) :
                   f \in ImageSet(posts[resp'.req.post_id].content)
                          \ ImageSet(posts'[resp'.req.post_id].content)}
         ]_vars

\* a cleanup that deleted one image and kept another that is still
\* referenced
C13_Witness ==
    /\ Responded("update_post")
    /\ resp.status = 200
    /\ resp.req.delete_unused_images
    /\ ContentKeys(DeletedBy(log)) # {}
    /\ \E f \in ImageSet(ThePost.content) :
           object_name_of(CONTENT, f) \in storage

\* C14: update_post without delete_unused_images deletes no object under
\* content/: every content object stored before the call is stored after.
C14_EditAloneDeletesNothing ==
    [][(Handles("update_post") /\ ~resp'.req.delete_unused_images)
       => /\ ContentKeys(storage) \subseteq storage'
          /\ ContentKeys(DeleteAttempted(log')) = {}]_vars

\* an edit without cleanup that left a stored content image unreferenced
C14_Witness ==
    /\ Responded("update_post")
    /\ resp.status = 200
    /\ ~resp.req.delete_unused_images
    /\ ThePost.content = Plain
    /\ \E k \in ContentKeys(storage) :
           /\ Basename(k) \notin ImageSet(ThePost.content)
           /\ Basename(k) # ThePost.image_url

Raced(p, q) ==
    /\ p # q
    /\ calls[p].pc = "done" /\ calls[p].status = 200
    /\ calls[q].pc = "done" /\ calls[q].status = 200
    /\ calls[p].post_id = calls[q].post_id
    /\ calls[p].rank < calls[q].rank
    /\ calls[q].seen < calls[p].rank

\* C17: two update_post_cover_image requests on the same post are not
\* serialized: whenever the second to commit had loaded the post before
\* the first committed, both succeed, the post's cover is the filename
\* written by the later commit, and the object uploaded by the other
\* request stays in storage, the cover of no post.
C17_RacingCoverUploadsOrphan ==
    \A p \in Procs, q \in Procs :
        Raced(p, q)
            => /\ posts[calls[q].post_id].image_url = calls[q].new
               /\ calls[p].new # calls[q].new
               /\ object_name_of(COVER, calls[p].new) \in storage
               /\ \A i \in PostIds : posts[i].image_url # calls[p].new

\* the race has happened: both requests are done and an orphan is left
C17_Witness ==
    \E p \in Procs, q \in Procs :
        /\ Raced(p, q)
        /\ posts[calls[q].post_id].image_url = calls[q].new
        /\ object_name_of(COVER, calls[p].new) \in storage
        /\ object_name_of(COVER, calls[q].new) \in storage
        /\ \A i \in PostIds : posts[i].image_url # calls[p].new

\* the content with each image's markdown put in front of the character
\* at the image's index, from offset k on
RECURSIVE WithMarkers(_, _, _, _)
WithMarkers(content, filenames, entries, k) ==
    IF k > Len(content) THEN << >>
    ELSE (IF \E a \in DOMAIN entries : entries[a].index = k
          THEN img_markdown(filenames[
                   entries[CHOOSE a \in DOMAIN entries :
                               entries[a].index = k].image_index + 1])
          ELSE << >>)
         \o (IF k < Len(content) THEN <<content[k + 1]>> ELSE << >>)
         \o WithMarkers(content, filenames, entries, k + 1)

\* C18: for positions with distinct in-range indexes, given in any order,
\* each image's markdown is inserted at its original character offset of
\* the input content, so the markers appear in ascending position order
\* with the original text between them unchanged.
C18_PositionsInsertAtOriginalOffsets ==
    (calc.fn = "process_positions" /\ calc.done
     /\ calc.positions.kind = "valid")
        => /\ ~calc.out.crash
           /\ calc.out.content
                 = WithMarkers(calc.content, calc.filenames,
                               calc.positions.entries, 0)

\* positions given in ascending order of index, the order in which they
\* must not be processed
C18_Witness ==
    /\ calc.fn = "process_positions" /\ calc.done
    /\ calc.positions.kind = "valid"
    /\ Len(calc.positions.entries) = 3
    /\ calc.positions.entries[1].index < calc.positions.entries[2].index
    /\ calc.positions.entries[2].index < calc.positions.entries[3].index
    /\ Len(calc.out.content) > Len(calc.content) + 3 * Len(IMAGE_BASE_URL)

\* C19: malformed position data (unparseable or of the wrong shape) falls
\* back to append-all: the content is the one _insert_images_into_content
\* makes, so every saved image is referenced.
C19_MalformedPositionsAppendAll ==
    (calc.fn = "process_positions" /\ calc.done
     /\ calc.positions.kind \notin {"valid", "absent"})
        => /\ ~calc.out.crash
           /\ calc.out.content
                 = _insert_images_into_content(calc.content, calc.filenames)
           /\ Range(calc.filenames) \subseteq ImageSet(calc.out.content)

\* C20: for a content without image references and a list of generated
\* filenames, find_images_in_content of the content made by
\* _insert_images_into_content is that list, in order, repeats kept.
C20_InsertThenFindRoundTrip ==
    (calc.fn = "find_images_in_content"
     /\ find_images_in_content(calc.into) = << >>)
        => calc.out = calc.inserted

\* the number of newlines of a content
Newlines(s) == Occurrences(s, NL)

\* a second removal of the same filename changes nothing
RemovalIsIdempotent ==
    calc.fn = "_remove_image_from_content_again" => calc.out = calc.content

\* a content is no longer after an image was inserted and removed again
InsertThenRemoveAddsNoLines ==
    calc.fn = "insert_then_remove" => Newlines(calc.out) <= Newlines(calc.into)

\* C21: _remove_image_from_content is idempotent on a content that held
\* one reference to the filename, and it leaves no blank lines behind: a
\* content has no more newlines after an image was inserted into it and
\* removed again.
C21_RemoveReferenceIsIdempotent ==
    RemovalIsIdempotent /\ InsertThenRemoveAddsNoLines

\* C22: for every bare filename f without a slash and both image types,
\* extract_filename_from_path(get_image_full_url(f, t)) is f.
C22_CodecRoundTrip ==
    (calc.fn = "extract_filename_from_path" /\ ~Contains(calc.filename, "/"))
        => calc.out = calc.filename

\* C23: delete_image_from_minio(identifier, type) asks the bucket to remove
\* the key "{type}/{extract_filename_from_path(identifier)}" and no other,
\* whether the identifier is a bare filename, a relative path or a full URL.
C23_DeleteGoesThroughExtractFilename ==
    (calc.fn = "delete_image_from_minio" /\ calc.done) =>
        calc.out = <<object_name_of(
                        calc.image_type,
                        extract_filename_from_path(calc.image_identifier))>>

\* C24: an update_post that succeeds without a cover file leaves the cover
\* of the post as it was when keep_cover_image is true, and leaves the post
\* without a cover when keep_cover_image is false.
C24_KeepCoverImageDecides ==
    [][(/\ Handles("update_post")
        /\ resp'.status = 200
        /\ resp'.req.cover_image.filename = << >>)
       => posts'[resp'.req.post_id].image_url =
              IF resp'.req.keep_cover_image
              THEN posts[resp'.req.post_id].image_url
              ELSE None]_vars

\* C25: delete_post with delete_images asks the bucket to remove the cover
\* of the post under cover/ and every filename found in its content under
\* content/, and removes the row whether or not those deletes succeed.
C25_DeletePostRemovesRowAfterDeletes ==
    [][(/\ Handles("delete_post")
        /\ resp'.req.delete_images
        /\ posts[resp'.req.post_id].exists)
       => /\ resp'.status = 204
          /\ ~posts'[resp'.req.post_id].exists
          /\ posts[resp'.req.post_id].image_url # None =>
                 object_name_of(COVER, posts[resp'.req.post_id].image_url)
                     \in DeleteAttempted(log')
          /\ \A f \in ImageSet(posts[resp'.req.post_id].content) :
                 object_name_of(CONTENT, f) \in DeleteAttempted(log')]_vars

\* a post with a cover and an image in its content was deleted, one of the
\* deletes having failed
C25_Witness ==
    /\ Responded("delete_post")
    /\ resp.status = 204
    /\ resp.req.delete_images
    /\ ~ThePost.exists
    /\ DeleteFailed(log)
    /\ \E i \in DOMAIN log : StartsWith(log[i].key, COVER \o <<"/">>)
    /\ \E i \in DOMAIN log : StartsWith(log[i].key, CONTENT \o <<"/">>)

\* C26: list_images returns the cover of an archived post only when
\* show_archived_post_images is true, and the cover of an inactive post only
\* when show_inactive_post_images is true.
C26_ListImagesHidesUnpublishedCovers ==
    Responded("list_images") =>
        \A i \in {i \in PostIds : posts[i].exists /\ posts[i].image_url # None} :
            object_name_of(COVER, ExtractOr(posts[i].image_url)) \in resp.images
            => /\ posts[i].is_archived => resp.req.show_archived_post_images
               /\ ~posts[i].is_active => resp.req.show_inactive_post_images

\* serve_post_image serves only for a post that exists, is active and is
\* not archived
ServedOnlyForPublishedPost ==
    (Responded("serve_post_image") /\ resp.status = 200) =>
        ThePost.exists /\ ThePost.is_active /\ ~ThePost.is_archived

\* for a published post, a cover filename that is not the filename of the
\* post's cover, the post having a cover or none, is answered with 404
ForeignCoverIsNotFound ==
    (/\ Responded("serve_post_image")
     /\ ThePost.exists /\ ThePost.is_active /\ ~ThePost.is_archived
     /\ resp.req.image_type = COVER
     /\ extract_filename_from_path(ThePost.image_url) # resp.req.filename)
    => resp.status = 404

\* C27: serve_post_image returns the image only for a post that exists, is
\* active and is not archived and, for a cover, only when the filename is
\* that of the post's cover; any other cover filename is answered with 404,
\* also when the post has no cover.
C27_ServePostImageChecksPostAndCover ==
    ServedOnlyForPublishedPost /\ ForeignCoverIsNotFound

\* C28: after a delete_post_image of a content image that succeeds with
\* update_content, find_images_in_content no longer finds the filename in
\* the content of the post, however the reference was written.
C28_DeletedImageLeavesContent ==
    (/\ Responded("delete_post_image")
     /\ resp.status = 200
     /\ resp.req.image_type = CONTENT
     /\ resp.req.update_content)
    => ~Contains(find_images_in_content(ThePost.content), resp.req.filename)

\* C29: when a delete_post_image of a content image and an
\* add_images_to_post with auto_insert have both succeeded on the same
\* post, the content of the post does not reference the deleted filename.
C29_ConcurrentAddKeepsImageDeleted ==
    \A p \in Procs, q \in Procs :
        (/\ calls[p].pc = "done" /\ calls[q].pc = "done"
         /\ calls[p].status = 200 /\ calls[q].status = 200
         /\ calls[p].op = "delete_post_image"
         /\ calls[q].op = "add_images_to_post"
         /\ calls[p].post_id = calls[q].post_id)
        => /\ calls[p].filename \notin ImageSet(posts[calls[p].post_id].content)
           /\ object_name_of(CONTENT, calls[p].filename) \notin storage

\* the step is a request `op` on an existing post that changes its row to
\* `row` and nothing else in the table
SetsRow(op, row) ==
    (Handles(op) /\ posts[resp'.req.post_id].exists)
        => /\ resp'.status = 200
           /\ posts' = [posts EXCEPT ![resp'.req.post_id] = row]

\* C30: an update_post that succeeds leaves is_active and is_archived at
\* the values of the request, true and false when the fields are omitted,
\* whatever they were before; archive_post, unarchive_post, activate_post
\* and deactivate_post each change their own flag and nothing else.
C30_UpdatePostOverwritesStatus ==
    [][/\ (Handles("update_post") /\ resp'.status = 200)
           => /\ posts'[resp'.req.post_id].is_active = resp'.req.is_active
              /\ posts'[resp'.req.post_id].is_archived = resp'.req.is_archived
       /\ SetsRow("archive_post",
                  [posts[resp'.req.post_id] EXCEPT !.is_archived = TRUE])
       /\ SetsRow("unarchive_post",
                  [posts[resp'.req.post_id] EXCEPT !.is_archived = FALSE])
       /\ SetsRow("activate_post",
                  [posts[resp'.req.post_id] EXCEPT !.is_active = TRUE])
       /\ SetsRow("deactivate_post",
                  [posts[resp'.req.post_id] EXCEPT !.is_active = FALSE])]_vars

\* an update_post with the default status has succeeded on a post that was
\* archived and inactive, and the post is active and not archived
C30_Witness ==
    /\ Responded("update_post")
    /\ resp.status = 200
    /\ "before" \in DOMAIN resp.req
    /\ resp.req.before.is_archived
    /\ ~resp.req.before.is_active
    /\ resp.req.is_active
    /\ ~resp.req.is_archived
    /\ ThePost.is_active
    /\ ~ThePost.is_archived

====
